---- MODULE Spec2Model ----
(***************************************************************************)
(* Model of the embed-api metadata extraction pipeline:                    *)
(*   URLParser            (embed-api/src/services/url-parser.ts)            *)
(*   EmbedService, YouTubeParser, GenericParser                            *)
(*                        (embed-api/src/services/embed-service.ts)        *)
(*   MetadataExtractor    (services/metadata)                              *)
(*   the extract / oembed / render routes                                  *)
(*                                                                         *)
(* A URL string is a sequence of tokens, each token standing for the       *)
(* substring it spells ("https://", "www.", "youtube.com", "/", "?", ...). *)
(* Parsing, serialising and pattern matching work on these sequences the   *)
(* way the WHATWG URL parser and the regular expressions work on the       *)
(* characters.                                                             *)
(***************************************************************************)
EXTENDS Integers, Sequences, FiniteSets, TLC

(***************************************************************************)
(* Tokens                                                                  *)
(***************************************************************************)
SchemeTokens == {"https://", "http://"}

Domains == {"youtube.com", "youtu.be", "example.com", "localhost",
            "instagram.com", "tiktok.com", "vm.tiktok.com", "linkedin.com",
            "twitter.com", "x.com"}

\* Tokens of exactly 11 characters, none of them in ["&?/\s]
IdTokens == {"dQw4w9WgXcQ", "ABCDEFGHIJK"}

\* Tokens of one or more digits
DigitTokens == {"1", "1234567890"}

\* Tokens of one or more characters of [A-Za-z0-9_-]
WordTokens == IdTokens \cup DigitTokens \cup
              {"watch", "embed", "shorts", "v", "e", "a", "p", "reel", "tv",
               "video", "posts", "pulse", "status", "user", "x", "short"}

\* Query keys, each spelled with its "="
KeyTokens == {"v=", "keep=", "utm_source=", "utm_medium=", "utm_campaign=",
              "utm_term=", "utm_content=", "fbclid=", "gclid=", "ref=",
              "source=", "campaign_id="}

\* url-parser.ts:63-66
trackingParams == {"utm_source=", "utm_medium=", "utm_campaign=", "utm_term=",
                   "utm_content=", "fbclid=", "gclid=", "ref=", "source=",
                   "campaign_id="}

NoTokens == << >>

(***************************************************************************)
(* Sequence helpers                                                        *)
(***************************************************************************)
Drop(s, n) == IF n >= Len(s) THEN << >> ELSE SubSeq(s, n + 1, Len(s))

Take(s, n) == IF n <= 0 THEN << >> ELSE SubSeq(s, 1, IF n > Len(s) THEN Len(s) ELSE n)

\* index of the first token of s that lies in set S, or Len(s)+1
FirstIn(s, S) ==
  IF \E i \in 1..Len(s) : s[i] \in S
  THEN CHOOSE i \in 1..Len(s) : s[i] \in S /\ \A k \in 1..(i - 1) : s[k] \notin S
  ELSE Len(s) + 1

Range(s) == {s[i] : i \in 1..Len(s)}

Min(S) == CHOOSE x \in S : \A y \in S : x <= y

Max(S) == CHOOSE x \in S : \A y \in S : x >= y

At(s, i) == IF i \in 1..Len(s) THEN s[i] ELSE ""

\* String.prototype.trim on tokens
RECURSIVE trim(_)
trim(s) ==
  IF s = << >> THEN s
  ELSE IF s[1] = " " THEN trim(Drop(s, 1))
  ELSE IF s[Len(s)] = " " THEN trim(Take(s, Len(s) - 1))
  ELSE s

(***************************************************************************)
(* new URL(...): parse and serialise                                       *)
(***************************************************************************)
HostOf(u) == Take(Drop(u, 1), FirstIn(Drop(u, 1), {"/", "?"}) - 1)

AfterHost(u) == Drop(u, 1 + Len(HostOf(u)))

HostOk(h) ==
  \/ Len(h) = 1 /\ h[1] \in Domains
  \/ Len(h) = 2 /\ h[1] = "www." /\ h[2] \in Domains

\* new URL(url) does not throw
ParseOk(u) ==
  /\ Len(u) >= 2
  /\ u[1] \in SchemeTokens
  /\ HostOk(HostOf(u))

PathOf(u) ==
  LET rest == AfterHost(u)
      p    == Take(rest, FirstIn(rest, {"?"}) - 1)
  IN  IF p = << >> THEN <<"/">> ELSE p

RawQueryOf(u) ==
  LET rest == AfterHost(u)
  IN  Drop(rest, FirstIn(rest, {"?"}))

\* application/x-www-form-urlencoded: percent-decoding on parse
DecodeTok(t) == IF t = "%2F" THEN "/" ELSE t

\* application/x-www-form-urlencoded: percent-encoding on serialise
EncodeTok(t) == IF t = "/" THEN "%2F" ELSE t

\* the name/value pairs of a query, each pair a token sequence whose
\* first token is the key
RECURSIVE SplitParams(_)
SplitParams(q) ==
  IF q = << >> THEN << >>
  ELSE LET n == FirstIn(q, {"&"})
           p == Take(q, n - 1)
       IN  IF p = << >> THEN SplitParams(Drop(q, n))
           ELSE <<[i \in 1..Len(p) |-> DecodeTok(p[i])]>> \o SplitParams(Drop(q, n))

RECURSIVE JoinParams(_)
JoinParams(ps) ==
  IF ps = << >> THEN << >>
  ELSE LET p == [i \in 1..Len(ps[1]) |-> EncodeTok(ps[1][i])]
       IN  IF Len(ps) = 1 THEN p ELSE p \o <<"&">> \o JoinParams(Drop(ps, 1))

\* a delete that removes only the first pair with a tracking name
DeleteTrackingFirstOnly(ps) ==
  LET hits == {i \in 1..Len(ps) : ps[i][1] \in trackingParams}
  IN  IF hits = {} THEN ps
      ELSE LET i == CHOOSE x \in hits : \A y \in hits : x <= y
           IN  SubSeq(ps, 1, i - 1) \o SubSeq(ps, i + 1, Len(ps))

\* URLSearchParams.delete for every name of trackingParams
DeleteTracking(ps) == SelectSeq(ps, LAMBDA p : p[1] \notin trackingParams)

\* URL.toString() of the parsed parts
Serialize(scheme, host, path, ps) ==
  <<scheme>> \o host \o path \o (IF ps = << >> THEN << >> ELSE <<"?">> \o JoinParams(ps))

(***************************************************************************)
(* URLParser                                                               *)
(***************************************************************************)
\* a validity check that accepts every string
isValidUrlAlways(u) == TRUE

\* new URL(url) strips leading and trailing spaces before it parses
isValidUrl(u) == ParseOk(trim(u))

\* a normalisation that re-serialises the URL and deletes nothing
normalizeUrlNoStrip(url) ==
  LET u == IF Len(url) >= 1 /\ url[1] \in SchemeTokens THEN url ELSE <<"https://">> \o url
      s == trim(u)
  IN  IF ParseOk(s)
      THEN Serialize(s[1], HostOf(s), PathOf(s), SplitParams(RawQueryOf(s)))
      ELSE u

normalizeUrl(url) ==
  LET u == IF Len(url) >= 1 /\ url[1] \in SchemeTokens THEN url ELSE <<"https://">> \o url
      s == trim(u)
  IN  IF ParseOk(s)
      THEN Serialize(s[1], HostOf(s), PathOf(s), DeleteTracking(SplitParams(RawQueryOf(s))))
      ELSE u

getDomain(u) == IF ParseOk(u) THEN HostOf(u) ELSE NoTokens

(***************************************************************************)
(* URLParser.PLATFORM_PATTERNS.  The patterns are not anchored: a match    *)
(* may begin at any token.  Each matcher returns the text of capture       *)
(* group 1 of the leftmost match, or NoMatch.                              *)
(***************************************************************************)
NoMatch == ""

\* index of the first "/" at or after position i, or Len(s)+1
NextSlash(s, i) == i - 1 + FirstIn(Drop(s, i - 1), {"/"})

\* youtube.com\/(?:[^\/]+\/.+\/|(?:v|e(?:mbed)?)\/|.*[?&]v=)([^"&?\/\s]{11})
\* tried at the token j that spells youtube.com
YouTubeComAt(s, j) ==
  LET i1   == NextSlash(s, j + 2)
      alt1 == {i2 \in (i1 + 2)..Len(s) :
                 /\ i1 > j + 2
                 /\ s[i2] = "/"
                 /\ At(s, i2 + 1) \in IdTokens}
      alt3 == {i \in (j + 2)..Len(s) :
                 /\ s[i] \in {"?", "&"}
                 /\ At(s, i + 1) = "v="
                 /\ At(s, i + 2) \in IdTokens}
  IN  IF At(s, j) # "youtube.com" \/ At(s, j + 1) # "/" THEN NoMatch
      ELSE IF alt1 # {} THEN s[Max(alt1) + 1]
      ELSE IF At(s, j + 2) \in {"v", "e", "embed"} /\ At(s, j + 3) = "/"
              /\ At(s, j + 4) \in IdTokens THEN s[j + 4]
      ELSE IF alt3 # {} THEN s[Max(alt3) + 2]
      ELSE NoMatch

\* youtu\.be\/([^"&?\/\s]{11}) tried at the token j
YouTuBeAt(s, j) ==
  IF At(s, j) = "youtu.be" /\ At(s, j + 1) = "/" /\ At(s, j + 2) \in IdTokens
  THEN s[j + 2] ELSE NoMatch

YouTube1At(s, j) ==
  IF YouTubeComAt(s, j) # NoMatch THEN YouTubeComAt(s, j) ELSE YouTuBeAt(s, j)

\* youtube\.com\/shorts\/([^"&?\/\s]{11})
YouTube2At(s, j) ==
  IF /\ At(s, j) = "youtube.com" /\ At(s, j + 1) = "/" /\ At(s, j + 2) = "shorts"
     /\ At(s, j + 3) = "/" /\ At(s, j + 4) \in IdTokens
  THEN s[j + 4] ELSE NoMatch

\* instagram\.com\/(?:p|reel|tv)\/([A-Za-z0-9_-]+)
InstagramAt(s, j) ==
  IF /\ At(s, j) = "instagram.com" /\ At(s, j + 1) = "/"
     /\ At(s, j + 2) \in {"p", "reel", "tv"}
     /\ At(s, j + 3) = "/" /\ At(s, j + 4) \in WordTokens
  THEN s[j + 4] ELSE NoMatch

\* tiktok\.com\/@[^\/]+\/video\/(\d+)
TikTok1At(s, j) ==
  LET k == NextSlash(s, j + 2)
  IN  IF /\ At(s, j) \in {"tiktok.com", "vm.tiktok.com"} /\ At(s, j + 1) = "/"
         /\ At(s, j + 2) = "@user"
         /\ At(s, k + 1) = "video" /\ At(s, k + 2) = "/"
         /\ At(s, k + 3) \in DigitTokens
      THEN s[k + 3] ELSE NoMatch

\* vm\.tiktok\.com\/([A-Za-z0-9]+)
TikTok2At(s, j) ==
  IF At(s, j) = "vm.tiktok.com" /\ At(s, j + 1) = "/" /\ At(s, j + 2) \in WordTokens
  THEN s[j + 2] ELSE NoMatch

\* linkedin\.com\/<section>\/[^\/]+\/([A-Za-z0-9_-]+)
LinkedInAt(s, j, section) ==
  LET k == NextSlash(s, j + 4)
  IN  IF /\ At(s, j) = "linkedin.com" /\ At(s, j + 1) = "/" /\ At(s, j + 2) = section
         /\ At(s, j + 3) = "/" /\ k > j + 4 /\ At(s, k + 1) \in WordTokens
      THEN s[k + 1] ELSE NoMatch

LinkedIn1At(s, j) == LinkedInAt(s, j, "posts")

LinkedIn2At(s, j) == LinkedInAt(s, j, "pulse")

\* (?:twitter\.com|x\.com)\/[^\/]+\/status\/(\d+)
TwitterAt(s, j) ==
  LET k == NextSlash(s, j + 2)
  IN  IF /\ At(s, j) \in {"twitter.com", "x.com"} /\ At(s, j + 1) = "/" /\ k > j + 2
         /\ At(s, k + 1) = "status" /\ At(s, k + 2) = "/"
         /\ At(s, k + 3) \in DigitTokens
      THEN s[k + 3] ELSE NoMatch

\* String.prototype.match(pattern): capture 1 of the leftmost match
Match(s, PatAt(_, _)) ==
  LET hits == {j \in 1..Len(s) : PatAt(s, j) # NoMatch}
  IN  IF hits = {} THEN NoMatch ELSE PatAt(s, Min(hits))

\* RegExp.prototype.test(pattern)
Test(s, PatAt(_, _)) == Match(s, PatAt) # NoMatch

\* the platforms of PLATFORM_PATTERNS in the order of its keys, generic left out
PlatformOrder == <<"youtube", "instagram", "tiktok", "linkedin", "twitter">>

\* some pattern of PLATFORM_PATTERNS[platform] matches the url
PatternsMatch(platform, url) ==
  CASE platform = "youtube"   -> Test(url, YouTube1At) \/ Test(url, YouTube2At)
    [] platform = "instagram" -> Test(url, InstagramAt)
    [] platform = "tiktok"    -> Test(url, TikTok1At) \/ Test(url, TikTok2At)
    [] platform = "linkedin"  -> Test(url, LinkedIn1At) \/ Test(url, LinkedIn2At)
    [] platform = "twitter"   -> Test(url, TwitterAt)
    [] OTHER -> FALSE

\* a detection that tries the platforms in alphabetical order
detectPlatformAlphabetical(url) ==
  IF Test(url, InstagramAt) THEN "instagram"
  ELSE IF Test(url, LinkedIn1At) \/ Test(url, LinkedIn2At) THEN "linkedin"
  ELSE IF Test(url, TikTok1At) \/ Test(url, TikTok2At) THEN "tiktok"
  ELSE IF Test(url, TwitterAt) THEN "twitter"
  ELSE IF Test(url, YouTube1At) \/ Test(url, YouTube2At) THEN "youtube"
  ELSE "generic"

\* url-parser.ts:28-42
detectPlatform(url) ==
  IF Test(url, YouTube1At) \/ Test(url, YouTube2At) THEN "youtube"
  ELSE IF Test(url, InstagramAt) THEN "instagram"
  ELSE IF Test(url, TikTok1At) \/ Test(url, TikTok2At) THEN "tiktok"
  ELSE IF Test(url, LinkedIn1At) \/ Test(url, LinkedIn2At) THEN "linkedin"
  ELSE IF Test(url, TwitterAt) THEN "twitter"
  ELSE "generic"

\* an extractor that tries only the first YouTube pattern
extractYouTubeVideoIdFirstOnly(url) == Match(url, YouTube1At)

\* url-parser.ts:78-89
extractYouTubeVideoId(url) ==
  IF Match(url, YouTube1At) # NoMatch THEN Match(url, YouTube1At)
  ELSE Match(url, YouTube2At)

\* url-parser.ts:91-95
extractInstagramPostId(url) == Match(url, InstagramAt)

\* url-parser.ts:97-108
extractTikTokVideoId(url) ==
  IF Match(url, TikTok1At) # NoMatch THEN Match(url, TikTok1At)
  ELSE Match(url, TikTok2At)

\* an extractor that tries only the first LinkedIn pattern
extractLinkedInPostIdFirstOnly(url) == Match(url, LinkedIn1At)

\* url-parser.ts:110-121
extractLinkedInPostId(url) ==
  IF Match(url, LinkedIn1At) # NoMatch THEN Match(url, LinkedIn1At)
  ELSE Match(url, LinkedIn2At)

\* url-parser.ts:123-127
extractTwitterTweetId(url) == Match(url, TwitterAt)

\* the ID extractor of each platform
extractId(platform, url) ==
  CASE platform = "youtube"   -> extractYouTubeVideoId(url)
    [] platform = "instagram" -> extractInstagramPostId(url)
    [] platform = "tiktok"    -> extractTikTokVideoId(url)
    [] platform = "linkedin"  -> extractLinkedInPostId(url)
    [] platform = "twitter"   -> extractTwitterTweetId(url)
    [] OTHER -> NoMatch

(***************************************************************************)
(* Request URLs                                                            *)
(***************************************************************************)
UrlWatch      == <<"https://", "www.", "youtube.com", "/", "watch", "?", "v=", "dQw4w9WgXcQ">>
UrlShort      == <<"https://", "youtu.be", "/", "dQw4w9WgXcQ">>
UrlEmbed      == <<"http://", "youtube.com", "/", "embed", "/", "ABCDEFGHIJK">>
UrlShorts     == <<"https://", "www.", "youtube.com", "/", "shorts", "/", "ABCDEFGHIJK">>
UrlWatchUtm   == <<"https://", "www.", "youtube.com", "/", "watch", "?", "utm_source=", "x",
                   "&", "v=", "dQw4w9WgXcQ">>
UrlWatchRef   == <<"https://", "www.", "youtube.com", "/", "watch", "?", "v=", "dQw4w9WgXcQ",
                   "&", "ref=", "a", "/", "x", "/", "ABCDEFGHIJK">>
UrlWatchBadId == <<"https://", "www.", "youtube.com", "/", "watch", "?", "v=", "short">>
UrlArticle    == <<"https://", "example.com", "/", "a", "?", "utm_source=", "x", "&", "keep=", "1">>
UrlWww        == <<" ", "https://", "www.", "example.com", "/", "a", " ">>
UrlBare       == <<"http://", "example.com">>
UrlRefYt      == <<"https://", "example.com", "/", "a", "?", "ref=", "youtu.be", "/", "dQw4w9WgXcQ">>
UrlKeepYt     == <<"https://", "example.com", "/", "a", "?", "keep=", "youtu.be", "/", "dQw4w9WgXcQ">>
UrlNoScheme   == <<"example.com", "/", "a">>
UrlYtNoScheme == <<"youtube.com", "/", "watch", "?", "v=", "dQw4w9WgXcQ">>
UrlLocalhost  == <<"http://", "localhost", "/", "a">>
UrlGarbage    == <<"not", " ", "a", " ", "url">>
UrlBadHost    == <<"https://", "exa", " ", "mple.com", "/", "a">>
UrlMissing    == << >>

Urls == {UrlWatch, UrlShort, UrlEmbed, UrlShorts, UrlWatchUtm, UrlWatchRef, UrlWatchBadId,
         UrlArticle, UrlWww, UrlBare, UrlRefYt, UrlKeepYt, UrlNoScheme, UrlYtNoScheme,
         UrlLocalhost, UrlGarbage, UrlBadHost, UrlMissing}

\* further strings given to URLParser directly
UrlInstagram    == <<"https://", "www.", "instagram.com", "/", "reel", "/", "ABCDEFGHIJK">>
UrlTikTok       == <<"https://", "www.", "tiktok.com", "/", "@user", "/", "video", "/", "1234567890">>
UrlTikTokShort  == <<"https://", "vm.tiktok.com", "/", "a">>
UrlLinkedIn     == <<"https://", "www.", "linkedin.com", "/", "posts", "/", "user", "/", "1234567890">>
UrlLinkedInPulse == <<"linkedin.com", "/", "pulse", "/", "user", "/", "x">>
UrlTwitter      == <<"https://", "twitter.com", "/", "user", "/", "status", "/", "1234567890">>
UrlX            == <<"http://", "x.com", "/", "user", "/", "status", "/", "1">>
UrlTwitterYt    == <<"https://", "twitter.com", "/", "user", "/", "status", "/", "1", "?",
                     "keep=", "youtu.be", "/", "dQw4w9WgXcQ">>
UrlTwoTracking  == <<"https://", "example.com", "/", "a", "?", "utm_source=", "x", "&", "keep=", "1",
                     "&", "fbclid=", "1", "&", "v=", "a", "&", "utm_source=", "a">>
UrlOnlyTracking == <<"http://", "www.", "example.com", "/", "a", "?", "gclid=", "1">>
UrlTrailing     == <<"https://", "example.com", "/", "a", "?", "ref=", "1", "&", "keep=", "1", " ">>

ParserUrls == Urls \cup {UrlInstagram, UrlTikTok, UrlTikTokShort, UrlLinkedIn, UrlLinkedInPulse,
                         UrlTwitter, UrlX, UrlTwitterYt, UrlTwoTracking, UrlOnlyTracking,
                         UrlTrailing}

(***************************************************************************)
(* Fetched documents.  A page is the content of its meta tags by selector  *)
(* (meta[property], meta[name] and meta[itemprop] share the selector) and  *)
(* the text of its <title>.                                                *)
(***************************************************************************)
Selectors == {"og:title", "twitter:title", "title", "og:description", "twitter:description",
              "description", "og:image", "twitter:image", "twitter:image:src", "og:type",
              "og:site_name", "twitter:site", "author", "twitter:card"}

NoMeta == [sel \in Selectors |-> NoTokens]

ImgAbs == <<"https://", "cdn.example.com", "/", "img.png">>

PageFull ==
  [titleTag |-> <<"Tag title">>, width |-> 0, height |-> 0,
   meta |-> [NoMeta EXCEPT !["og:title"] = <<"OG title">>,
                           !["og:description"] = <<"OG description">>,
                           !["og:type"] = <<"article">>,
                           !["og:image"] = ImgAbs,
                           !["og:site_name"] = <<"@", "Site">>]]

PageVideo ==
  [titleTag |-> <<"Tag title">>, width |-> 640, height |-> 360,
   meta |-> [NoMeta EXCEPT !["og:title"] = <<"OG title">>,
                           !["description"] = <<"Meta description">>,
                           !["og:type"] = <<"Video", ".movie">>]]

PageTitleOnly ==
  [titleTag |-> <<"Tag title">>, width |-> 0, height |-> 0, meta |-> NoMeta]

PageTwitter ==
  [titleTag |-> NoTokens, width |-> 0, height |-> 0,
   meta |-> [NoMeta EXCEPT !["twitter:description"] = <<"TW description">>,
                           !["twitter:image"] = ImgAbs,
                           !["twitter:card"] = <<"player">>]]

PageEmpty == [titleTag |-> NoTokens, width |-> 0, height |-> 0, meta |-> NoMeta]

ImgRel == <<"/", "img.png">>

\* a page with a type of the OpenGraph vocabulary the switch does not list and
\* a relative image
PageRadio ==
  [titleTag |-> <<"Tag title">>, width |-> 0, height |-> 0,
   meta |-> [NoMeta EXCEPT !["og:type"] = <<"music", ".radio_station">>,
                           !["twitter:image"] = ImgRel]]

Pages == {PageFull, PageVideo, PageTitleOnly, PageTwitter, PageEmpty, PageRadio}

(***************************************************************************)
(* Outcomes of an axios.get: a response body, or a rejection with the      *)
(* message axios gives it                                                  *)
(***************************************************************************)
MsgNotFound == <<"getaddrinfo ", "ENOTFOUND", " host">>
MsgRefused  == <<"connect ", "ECONNREFUSED", " host">>
MsgTimeout  == <<"timeout", " of ", "ms exceeded">>
MsgStatus   == <<"Request failed with status code ", "500">>
MsgParse    == <<"Cannot read properties of undefined">>

NoPage == [titleTag |-> NoTokens, width |-> -1, height |-> -1, meta |-> NoMeta]

NoData == [title |-> NoTokens, author_name |-> NoTokens, author_url |-> NoTokens,
           thumbnail_url |-> NoTokens, width |-> 0, height |-> 0, empty |-> TRUE]

OEmbedData ==
  [title |-> <<"Video title">>, author_name |-> <<"Channel">>,
   author_url |-> <<"https://", "www.", "youtube.com", "/", "@user">>,
   thumbnail_url |-> <<"https://i.ytimg.com/vi/x/hqdefault.jpg">>,
   width |-> 200, height |-> 113, empty |-> FALSE]

FetchErrors == {MsgNotFound, MsgRefused, MsgTimeout, MsgStatus}

Rejected(msg) == [ok |-> FALSE, msg |-> msg, page |-> NoPage, data |-> NoData]

PageBody(page) == [ok |-> TRUE, msg |-> NoTokens, page |-> page, data |-> NoData]

OEmbedBody(d) == [ok |-> TRUE, msg |-> NoTokens, page |-> NoPage, data |-> d]

\* a body that makes cheerio.load throw is a fetch that resolved and a parse that raised
PageOutcomes == {Rejected(m) : m \in FetchErrors \cup {MsgParse}} \cup {PageBody(pg) : pg \in Pages}

\* the oEmbed endpoint answers with a JSON document or with an empty body
OEmbedOutcomes == {Rejected(m) : m \in FetchErrors} \cup {OEmbedBody(OEmbedData), OEmbedBody(NoData)}

(***************************************************************************)
(* EmbedMetadata (types.ts:1-21).  An absent string is NoTokens, an absent *)
(* number is 0, an absent embedData is NoEmbedData.                        *)
(***************************************************************************)
NoEmbedData == [present |-> FALSE, videoId |-> "", embedUrl |-> NoTokens]

NoMetadata ==
  [title |-> NoTokens, description |-> NoTokens, image |-> NoTokens, type |-> "",
   platform |-> "", url |-> NoTokens, width |-> 0, height |-> 0,
   authorName |-> NoTokens, authorUrl |-> NoTokens,
   providerName |-> NoTokens, providerUrl |-> NoTokens, embedData |-> NoEmbedData]

\* the value of an async call: a resolved record or a rejection with a message
Resolved(m) == [ok |-> TRUE, value |-> m, msg |-> NoTokens]

Threw(msg) == [ok |-> FALSE, value |-> NoMetadata, msg |-> msg]

MsgInvalidUrl     == <<"Invalid URL", " provided">>
MsgInvalidYouTube == <<"Invalid ", "YouTube ", "URL">>
MsgNoParser       == <<"No suitable parser", " found for URL">>

(***************************************************************************)
(* MetadataExtractor (services/metadata)                                   *)
(***************************************************************************)
\* String.prototype.replace(tok, ''): the first occurrence only
RemoveFirst(s, tok) ==
  LET i == FirstIn(s, {tok}) IN Take(s, i - 1) \o Drop(s, i)

getDomainFromUrl(url) ==
  IF ParseOk(url) THEN RemoveFirst(HostOf(url), "www.") ELSE <<"Unknown">>

RECURSIVE extractMetaContent(_, _)
extractMetaContent(page, selectors) ==
  IF selectors = << >> THEN NoTokens
  ELSE IF page.meta[selectors[1]] # NoTokens THEN trim(page.meta[selectors[1]])
  ELSE extractMetaContent(page, Drop(selectors, 1))

\* String.prototype.toLowerCase on the og:type values of the model, token by token
toLowerCaseToken(tok) ==
  CASE tok = "VIDEO" -> "video"
    [] tok = "Video" -> "video"
    [] tok = "Article" -> "article"
    [] OTHER -> tok

toLowerCase(t) == [i \in DOMAIN t |-> toLowerCaseToken(t[i])]

\* switch (ogType.toLowerCase())
OgTypeOf(ogType) ==
  LET t == toLowerCase(ogType)
  IN  IF t \in {<<"video">>, <<"video", ".movie">>, <<"video", ".episode">>,
                <<"video", ".tv_show">>, <<"video", ".other">>} THEN "video"
      ELSE IF t \in {<<"music">>, <<"music", ".song">>, <<"music", ".album">>,
                     <<"music", ".playlist">>}
      THEN "audio"
      ELSE IF t \in {<<"article">>, <<"blog">>, <<"news">>} THEN "article"
      ELSE "link"

startsWithHttp(s) == Len(s) >= 1 /\ s[1] \in SchemeTokens

\* new URL(image, origin).toString()
ResolveAgainstOrigin(image, url) ==
  <<url[1]>> \o HostOf(url) \o (IF image[1] = "/" THEN image ELSE <<"/">> \o image)

\* the catch blocks of extractOpenGraph and extractTwitterCards
FetchFailedMetadata(url) ==
  [NoMetadata EXCEPT !.url = url, !.platform = "generic", !.type = "link",
                     !.title = getDomainFromUrl(url)]

extractOpenGraph(url, outcome) ==
  IF ~outcome.ok THEN FetchFailedMetadata(url)
  ELSE
    LET page    == outcome.page
        t       == extractMetaContent(page, <<"og:title", "twitter:title", "title">>)
        ogType  == extractMetaContent(page, <<"og:type">>)
        image   == extractMetaContent(page, <<"og:image", "twitter:image", "twitter:image:src">>)
        author  == extractMetaContent(page, <<"og:site_name", "twitter:site", "author">>)
    IN  [NoMetadata EXCEPT
           !.url = url,
           !.platform = "generic",
           !.type = IF ogType # NoTokens THEN OgTypeOf(ogType) ELSE "link",
           !.title = IF t # NoTokens THEN t ELSE trim(page.titleTag),
           !.description = extractMetaContent(page, <<"og:description", "twitter:description",
                                                      "description">>),
           !.image = IF image # NoTokens /\ ~startsWithHttp(image)
                     THEN ResolveAgainstOrigin(image, url) ELSE image,
           !.width = page.width,
           !.height = page.height,
           !.authorName = RemoveFirst(author, "@")]

extractTwitterCards(url, outcome) ==
  IF ~outcome.ok THEN FetchFailedMetadata(url)
  ELSE
    LET page     == outcome.page
        t        == extractMetaContent(page, <<"twitter:title">>)
        cardType == extractMetaContent(page, <<"twitter:card">>)
    IN  [NoMetadata EXCEPT
           !.url = url,
           !.platform = "generic",
           !.type = IF cardType = NoTokens THEN "link"
                    ELSE IF cardType = <<"player">> THEN "video"
                    ELSE IF cardType \in {<<"summary_large_image">>, <<"summary">>} THEN "article"
                    ELSE "link",
           !.title = IF t # NoTokens THEN t ELSE trim(page.titleTag),
           !.description = extractMetaContent(page, <<"twitter:description">>),
           !.image = extractMetaContent(page, <<"twitter:image", "twitter:image:src">>)]

Or(a, b) == IF a # NoTokens THEN a ELSE b

\* the Twitter Card fetch is made when OpenGraph left a gap
NeedsTwitterCards(og) == og.title = NoTokens \/ og.description = NoTokens

\* the merge with the Twitter Card title preferred to the OpenGraph one
MergeMetadataTwitterFirst(url, og, tw) ==
  [NoMetadata EXCEPT
     !.title = Or(tw.title, Or(og.title, getDomainFromUrl(url))),
     !.description = Or(og.description, tw.description),
     !.image = Or(og.image, tw.image),
     !.type = IF og.type # "" THEN og.type ELSE IF tw.type # "" THEN tw.type ELSE "link",
     !.platform = "generic",
     !.url = url,
     !.authorName = og.authorName,
     !.width = og.width,
     !.height = og.height]

\* extractBasicMetadata, the merge of the two results
MergeMetadata(url, og, tw) ==
  [NoMetadata EXCEPT
     !.title = Or(og.title, Or(tw.title, getDomainFromUrl(url))),
     !.description = Or(og.description, tw.description),
     !.image = Or(og.image, tw.image),
     !.type = IF og.type # "" THEN og.type ELSE IF tw.type # "" THEN tw.type ELSE "link",
     !.platform = "generic",
     !.url = url,
     !.authorName = og.authorName,
     !.width = og.width,
     !.height = og.height]

\* MetadataExtractor.extractBasicMetadata(url), given the outcomes of the
\* page fetches made for it, in order
extractBasicMetadata(url, outs) ==
  LET og == extractOpenGraph(url, outs[1])
  IN  IF NeedsTwitterCards(og)
      THEN Resolved(MergeMetadata(url, og, extractTwitterCards(url, outs[2])))
      ELSE Resolved(og)

(***************************************************************************)
(* GenericParser (services/parsers/generic)                                *)
(***************************************************************************)
getBaseUrl(url) == IF ParseOk(url) THEN <<url[1]>> \o HostOf(url) ELSE url

\* the catch block of GenericParser.extractMetadata
GenericMinimal(url) ==
  [NoMetadata EXCEPT
     !.title = getDomainFromUrl(url),
     !.description = <<"Visit this link to view the content">>,
     !.type = "link",
     !.platform = "generic",
     !.url = url,
     !.providerName = getDomainFromUrl(url),
     !.providerUrl = getBaseUrl(url)]

\* the try block of GenericParser.extractMetadata
GenericWrap(url, basic) ==
  [basic EXCEPT !.platform = "generic",
                !.providerName = getDomainFromUrl(url),
                !.providerUrl = getBaseUrl(url)]

\* a generic extractor that lets the failure of its last fetch reach its caller
GenericExtractMetadataPropagates(url, outs) ==
  IF ~outs[Len(outs)].ok THEN Threw(outs[Len(outs)].msg)
  ELSE Resolved(GenericWrap(url, extractBasicMetadata(url, outs).value))

\* GenericParser.extractMetadata(url), given the outcomes of the page
\* fetches made for it, in order
GenericExtractMetadata(url, outs) ==
  LET basic == extractBasicMetadata(url, outs)
  IN  IF basic.ok THEN Resolved(GenericWrap(url, basic.value))
      ELSE Resolved(GenericMinimal(url))

(***************************************************************************)
(* YouTubeParser (services/parsers/youtube)                                *)
(***************************************************************************)
YouTubeCanHandle(url) == detectPlatform(url) = "youtube"

getThumbnailUrl(videoId) ==
  <<"https://img.youtube.com/vi", "/", videoId, "/", "hqdefault", ".jpg">>

\* embedData whose embedUrl is the watch page
EmbedDataOfWatchPage(videoId) ==
  [present |-> TRUE, videoId |-> videoId,
   embedUrl |-> <<"https://www.youtube.com/watch?v=", videoId>>]

\* embedData: { videoId, embedUrl }
EmbedDataOf(videoId) ==
  [present |-> TRUE, videoId |-> videoId,
   embedUrl |-> <<"https://www.youtube.com/embed/", videoId>>]

\* the placeholder record without its thumbnail
extractBasicVideoInfoNoThumbnail(videoId, url) ==
  [NoMetadata EXCEPT
     !.title = <<"YouTube Video">>,
     !.description = <<"Watch this video on YouTube">>,
     !.type = "video",
     !.platform = "youtube",
     !.url = url,
     !.width = 560,
     !.height = 315,
     !.providerName = <<"YouTube">>,
     !.providerUrl = <<"https://youtube.com">>,
     !.embedData = EmbedDataOf(videoId)]

\* the placeholder record without its platform tag
extractBasicVideoInfoNoPlatform(videoId, url) ==
  [NoMetadata EXCEPT
     !.title = <<"YouTube Video">>,
     !.description = <<"Watch this video on YouTube">>,
     !.image = getThumbnailUrl(videoId),
     !.type = "video",
     !.url = url,
     !.width = 560,
     !.height = 315,
     !.providerName = <<"YouTube">>,
     !.providerUrl = <<"https://youtube.com">>,
     !.embedData = EmbedDataOf(videoId)]

extractBasicVideoInfo(videoId, url) ==
  [NoMetadata EXCEPT
     !.title = <<"YouTube Video">>,
     !.description = <<"Watch this video on YouTube">>,
     !.image = getThumbnailUrl(videoId),
     !.type = "video",
     !.platform = "youtube",
     !.url = url,
     !.width = 560,
     !.height = 315,
     !.providerName = <<"YouTube">>,
     !.providerUrl = <<"https://youtube.com">>,
     !.embedData = EmbedDataOf(videoId)]

\* fetchOEmbedData: response.data, or null when axios.get rejects
fetchOEmbedData(outcome) == IF outcome.ok THEN outcome.data ELSE NoData

\* the record built from the oEmbed document, or the placeholder
YouTubeRecord(videoId, url, outcome) ==
  LET oembedData == fetchOEmbedData(outcome)
  IN  IF ~oembedData.empty
      THEN [NoMetadata EXCEPT
              !.title = oembedData.title,
              !.description = <<"Watch \"">> \o oembedData.title \o <<"\" by ">>
                              \o oembedData.author_name,
              !.image = oembedData.thumbnail_url,
              !.type = "video",
              !.platform = "youtube",
              !.url = url,
              !.width = oembedData.width,
              !.height = oembedData.height,
              !.authorName = oembedData.author_name,
              !.authorUrl = oembedData.author_url,
              !.providerName = <<"YouTube">>,
              !.providerUrl = <<"https://youtube.com">>,
              !.embedData = EmbedDataOf(videoId)]
      ELSE extractBasicVideoInfo(videoId, url)

\* a YouTube extractor that lets the failure of the oEmbed call reach its caller
YouTubeExtractMetadataThrows(videoId, url, outcome) ==
  IF ~outcome.ok THEN Threw(outcome.msg) ELSE Resolved(YouTubeRecord(videoId, url, outcome))

\* YouTubeParser.extractMetadata(url) from the point where the oEmbed call
\* settles: a record, whatever the outcome
YouTubeExtractMetadata(videoId, url, outcome) == Resolved(YouTubeRecord(videoId, url, outcome))

(***************************************************************************)
(* generateEmbed: the HTML is represented by the renderer that wrote it    *)
(* and the size it was given                                               *)
(***************************************************************************)
NoOptions == [width |-> 0, height |-> 0]

NoHtml == [renderer |-> "", width |-> 0, height |-> 0]

OrNum(a, b) == IF a # 0 THEN a ELSE b

YouTubeGenerateEmbed(metadata, options) ==
  IF ~metadata.embedData.present
  THEN [renderer |-> "youtube-link-preview", width |-> 500, height |-> 0]
  ELSE [renderer |-> "youtube-player",
        width  |-> OrNum(options.width, OrNum(metadata.width, 560)),
        height |-> OrNum(options.height, OrNum(metadata.height, 315))]

GenericGenerateEmbed(metadata, options) ==
  [renderer |-> "generic-embed", width |-> OrNum(options.width, 500), height |-> 200]

generateEmbed(parser, metadata, options) ==
  IF parser = "youtube" THEN YouTubeGenerateEmbed(metadata, options)
  ELSE GenericGenerateEmbed(metadata, options)

(***************************************************************************)
(* EmbedService                                                            *)
(***************************************************************************)
\* embed-service.ts:10-13
parsers == <<"youtube", "generic">>

\* a generic parser that handles no URL
canHandleSpecificOnly(parser, url) == parser = "youtube" /\ YouTubeCanHandle(url)

canHandle(parser, url) == IF parser = "youtube" THEN YouTubeCanHandle(url) ELSE TRUE

findParser(url) ==
  LET hits == {i \in 1..Len(parsers) : canHandle(parsers[i], url)}
  IN  IF hits = {} THEN "none" ELSE parsers[Min(hits)]

\* a mapping without its default branch
mapTypeToOEmbedNoDefault(type) ==
  CASE type = "video" -> "video"
    [] type = "image" -> "photo"
    [] type \in {"article", "audio"} -> "rich"
    [] type = "link" -> "link"
    [] OTHER -> "undefined"

mapTypeToOEmbed(type) ==
  CASE type = "video" -> "video"
    [] type = "image" -> "photo"
    [] type \in {"article", "audio"} -> "rich"
    [] OTHER -> "link"

(***************************************************************************)
(* Routes                                                                  *)
(***************************************************************************)
Routes == {"extract", "oembed", "render"}

\* the format query parameter: absent, or one of these strings
Formats == {"absent", "json", "xml", "yaml"}

\* validator.isURL(url, {protocols: ['http','https'], require_protocol: false}):
\* no whitespace, an optional http(s) scheme, a host name with a top-level domain
validatorIsURL(u) ==
  LET v    == IF startsWithHttp(u) THEN Drop(u, 1) ELSE u
      host == Take(v, FirstIn(v, {"/", "?"}) - 1)
  IN  /\ \A i \in 1..Len(u) : u[i] # " "
      /\ HostOk(host)
      /\ host[Len(host)] # "localhost"

\* String.prototype.includes
Includes(msg, needle) ==
  \E i \in 0..(Len(msg) - Len(needle)) : SubSeq(msg, i + 1, i + Len(needle)) = needle

\* the catch blocks of the three routes
ErrorStatus(rt, msg) ==
  IF Includes(msg, <<"Invalid URL">>) THEN 400
  ELSE IF Includes(msg, <<"timeout">>) THEN 408
  ELSE IF Includes(msg, <<"ENOTFOUND">>) \/ Includes(msg, <<"ECONNREFUSED">>) THEN 404
  ELSE IF rt # "extract" /\ Includes(msg, <<"No suitable parser">>) THEN 422
  ELSE 500

NoResponse ==
  [status |-> 0, error |-> NoTokens, data |-> NoMetadata, html |-> NoHtml, oembedType |-> "",
   width |-> 0, height |-> 0]

Reject(status) == [NoResponse EXCEPT !.status = status]

\* the checks without the one that refuses format=xml
RouteValidationNoXml(rt, u, f) ==
  IF u = NoTokens THEN 400
  ELSE IF rt = "oembed" /\ f \notin {"absent", "json", "xml"} THEN 400
  ELSE IF ~validatorIsURL(trim(u)) THEN 400
  ELSE 0

\* the checks a route makes before it calls the service: the status it
\* answers with, or 0 when the request goes on to the service
RouteValidation(rt, u, f) ==
  IF u = NoTokens THEN 400
  ELSE IF rt = "oembed" /\ f \notin {"absent", "json", "xml"} THEN 400
  ELSE IF rt = "oembed" /\ f = "xml" THEN 501
  ELSE IF ~validatorIsURL(trim(u)) THEN 400
  ELSE 0

\* the width/maxwidth and height/maxheight query parameters after parseInt:
\* 0 when the parameter is absent
Widths == {0, 320, 3000}

Heights == {0, 240}

\* /api/extract reads neither parameter
OptionsOf(rt) == IF rt = "extract" THEN {NoOptions} ELSE [width : Widths, height : Heights]

DimOk(d) == d = 0 \/ (d >= 1 /\ d <= 2000)

\* "Parse and validate dimensions" of the oembed and render routes: the status
\* answered, or 0 when the request goes on to the service
DimsValidation(rt, o) ==
  IF rt # "extract" /\ (~DimOk(o.width) \/ ~DimOk(o.height)) THEN 400 ELSE 0

\* getOEmbed, "Calculate dimensions", with the metadata width read first
OEmbedWidthMetadataFirst(metadata, o) == OrNum(metadata.width, OrNum(o.width, 500))

\* getOEmbed: renderOptions.width || metadata.width || 500
OEmbedWidth(metadata, o) == OrNum(o.width, OrNum(metadata.width, 500))

\* getOEmbed: renderOptions.height || metadata.height || 300
OEmbedHeight(metadata, o) == OrNum(o.height, OrNum(metadata.height, 300))

\* what a route answers once the service call has settled
RouteResponse(rt, url, o, result) ==
  IF ~result.ok
  THEN [NoResponse EXCEPT !.status = ErrorStatus(rt, result.msg), !.error = result.msg]
  ELSE IF rt = "extract" THEN [NoResponse EXCEPT !.status = 200, !.data = result.value]
  ELSE IF findParser(url) = "none"
  THEN [NoResponse EXCEPT !.status = ErrorStatus(rt, MsgNoParser), !.error = MsgNoParser]
  ELSE [NoResponse EXCEPT
          !.status = 200,
          !.data = result.value,
          !.html = generateEmbed(findParser(url), result.value, o),
          !.oembedType = IF rt = "oembed" THEN mapTypeToOEmbed(result.value.type) ELSE "",
          !.width = IF rt = "oembed" THEN OEmbedWidth(result.value, o) ELSE 0,
          !.height = IF rt = "oembed" THEN OEmbedHeight(result.value, o) ELSE 0]

(***************************************************************************)
(* State: the requests being served.  Each request is one run of a route   *)
(* handler; it is suspended while a fetch of its own is in flight.         *)
(***************************************************************************)
NumReqs == 2

Reqs == 1..NumReqs

VARIABLES
  pc,             \* "idle", "waiting" (a fetch is in flight) or "done"
  route,          \* the route the request came in on
  rawUrl,         \* the url query parameter as received
  format,         \* the format query parameter as received
  options,        \* the width and height query parameters as received
  normalizedUrl,  \* EmbedService.extractMetadata: const normalizedUrl
  parser,         \* EmbedService.extractMetadata: const parser
  fellBack,       \* the catch of EmbedService.extractMetadata called the generic parser
  inflight,       \* the fetches started and not yet settled
  started,        \* number of fetches started so far
  settled,        \* the fetches settled so far, in order, with their outcomes
  response,       \* the response sent
  returned,       \* the value returned by a direct call of a function
  embed,          \* the script state of the document YouTubeParser.generateEmbed emits
  provider        \* the state VideoProvider holds

vars == <<pc, route, rawUrl, format, options, normalizedUrl, parser, fellBack, inflight, started,
          settled, response, returned, embed, provider>>

\* the value of a direct call: the normalized URL and the result of normalizing
\* it again, the platform detected, the ID each platform's extractor finds, the
\* oEmbed type
NoReturn ==
  [url |-> NoTokens, twice |-> NoTokens, platform |-> "", ids |-> [p \in {} |-> NoMatch],
   oembedType |-> ""]

\* what a function of the document returned: << >> is undefined
Undefined == << >>

\* the document of YouTubeParser.generateEmbed before its script has run:
\* let player; let playerReady = false; let apiLoaded = false (lines 566-569)
NoDocument ==
  [loaded |-> FALSE,          \* the inline script has run
   shouldAutoplay |-> FALSE,  \* let shouldAutoplay
   apiLoaded |-> FALSE,       \* let apiLoaded
   YT |-> FALSE,              \* window.YT && window.YT.Player
   scriptTags |-> 0,          \* iframe_api script tags inserted
   player |-> FALSE,          \* let player: an object has been assigned
   playerReady |-> FALSE,     \* let playerReady
   thumbnail |-> "shown",     \* the overlay that carries onclick="initializePlayer()"
   loading |-> TRUE,          \* the loading overlay is displayed (under the thumbnail)
   activated |-> FALSE,       \* the play affordance has been activated
   state |-> "none",          \* the state the player reported last
   stopRequested |-> FALSE,   \* player.stopVideo() was invoked and not yet answered
   errored |-> FALSE,         \* onPlayerError has run
   lastCall |-> "none",       \* the player method invoked last
   earlyCalls |-> {},         \* the player methods invoked before onPlayerReady ran
   lastPosted |-> "none",     \* the message posted to the host last
   result |-> Undefined]      \* what the window function called last returned

\* the videos the screens of the application show
VideoIds == {"a", "b"}

\* interface VideoState, for a video the Map holds; registered is FALSE for a
\* videoId the Map has no entry for
Unregistered ==
  [registered |-> FALSE, isPlaying |-> FALSE, isPaused |-> FALSE, isVisible |-> FALSE,
   wasManuallyPaused |-> FALSE, shouldAutoPlay |-> FALSE]

\* currentVideo: null, or a copy of a video's state
NoCurrent == [videoId |-> "none", state |-> Unregistered]

\* useState(new Map()), useState(null), useState(true), useState(true)
NoVideos ==
  [videos |-> [v \in VideoIds |-> Unregistered], currentVideo |-> NoCurrent,
   autoPlayEnabled |-> TRUE, autoPauseOnScroll |-> TRUE]

Init ==
  /\ pc = [r \in Reqs |-> "idle"]
  /\ route = [r \in Reqs |-> ""]
  /\ rawUrl = [r \in Reqs |-> NoTokens]
  /\ format = [r \in Reqs |-> "absent"]
  /\ options = [r \in Reqs |-> NoOptions]
  /\ normalizedUrl = [r \in Reqs |-> NoTokens]
  /\ parser = [r \in Reqs |-> "none"]
  /\ fellBack = [r \in Reqs |-> FALSE]
  /\ inflight = [r \in Reqs |-> {}]
  /\ started = [r \in Reqs |-> 0]
  /\ settled = [r \in Reqs |-> << >>]
  /\ response = [r \in Reqs |-> NoResponse]
  /\ returned = [r \in Reqs |-> NoReturn]
  /\ embed = NoDocument
  /\ provider = NoVideos

\* normalizedUrl kept in one slot of the service, written by every request
NormalizedUrlShared(r) ==
  normalizedUrl[Max({q \in Reqs : normalizedUrl[q] # NoTokens} \cup {r})]

\* const normalizedUrl: a local of the call that serves request r
NormalizedUrlOf(r) == normalizedUrl[r]

\* the outcomes of the page fetches request r has seen, in order
PageOuts(r) ==
  LET pageFetches == SelectSeq(settled[r], LAMBDA e : e.target # "oembed")
  IN  [i \in 1..Len(pageFetches) |-> pageFetches[i].outcome]

\* await axios.get(...): the fetch that settled leaves the set in flight, the
\* fetches now started join it, and the request stays suspended
Await(r, done, targets) ==
  /\ pc' = [pc EXCEPT ![r] = "waiting"]
  /\ inflight' = [inflight EXCEPT ![r] = (@ \ done) \cup targets]
  /\ started' = [started EXCEPT ![r] = @ + Cardinality(targets)]
  /\ UNCHANGED response

\* res.json / res.send / res.status(...)
Send(r, resp) ==
  /\ pc' = [pc EXCEPT ![r] = "done"]
  /\ inflight' = [inflight EXCEPT ![r] = {}]
  /\ response' = [response EXCEPT ![r] = resp]
  /\ UNCHANGED started

\* EmbedService.extractMetadata, lines 30-35: the primary parser resolved
PrimaryReturn(n, res) == Resolved([res.value EXCEPT !.url = n])

\* the fetches MetadataExtractor.extractBasicMetadata starts first
FirstPageFetch == {"og"}

\* the route handler up to its first await: validation, then
\* EmbedService.extractMetadata up to the first fetch of the selected parser
Serve(r, rt, u, f, o) ==
  LET v == IF RouteValidation(rt, u, f) # 0 THEN RouteValidation(rt, u, f)
           ELSE DimsValidation(rt, o)
      t == trim(u)
      n == normalizeUrl(t)
      p == findParser(n)
  IN  /\ pc[r] = "idle"
      /\ route' = [route EXCEPT ![r] = rt]
      /\ rawUrl' = [rawUrl EXCEPT ![r] = u]
      /\ format' = [format EXCEPT ![r] = f]
      /\ options' = [options EXCEPT ![r] = o]
      /\ UNCHANGED <<settled, returned, embed, provider>>
      /\ IF v # 0
         THEN /\ Send(r, Reject(v))
              /\ UNCHANGED <<normalizedUrl, parser, fellBack>>
         ELSE IF ~isValidUrl(t)
         THEN /\ Send(r, RouteResponse(rt, t, o, Threw(MsgInvalidUrl)))
              /\ UNCHANGED <<normalizedUrl, parser, fellBack>>
         ELSE /\ normalizedUrl' = [normalizedUrl EXCEPT ![r] = n]
              /\ parser' = [parser EXCEPT ![r] = p]
              /\ IF p = "none"
                 THEN /\ Send(r, RouteResponse(rt, t, o, Threw(MsgNoParser)))
                      /\ UNCHANGED fellBack
                 ELSE IF p = "youtube" /\ extractYouTubeVideoId(n) # NoMatch
                 THEN /\ Await(r, {}, {"oembed"})
                      /\ UNCHANGED fellBack
                 ELSE \* the generic parser, selected or called from the catch
                      \* after 'Invalid YouTube URL'
                      /\ Await(r, {}, FirstPageFetch)
                      /\ fellBack' = [fellBack EXCEPT ![r] = (p # "generic")]

\* a request arrives while no other request is being served
ServeAlone(r, rt, u, f, o) ==
  /\ \A q \in Reqs : pc[q] = "idle"
  /\ Serve(r, rt, u, f, o)

\* the oEmbed call of YouTubeParser.extractMetadata settles
OEmbedSettles(r, o) ==
  LET n   == NormalizedUrlOf(r)
      res == YouTubeExtractMetadata(extractYouTubeVideoId(n), n, o)
  IN  /\ pc[r] = "waiting"
      /\ route[r] \in Routes
      /\ "oembed" \in inflight[r]
      /\ settled' = [settled EXCEPT ![r] = Append(@, [target |-> "oembed", outcome |-> o])]
      /\ UNCHANGED <<route, rawUrl, format, options, normalizedUrl, parser, returned, embed,
                     provider>>
      /\ IF res.ok
         THEN /\ Send(r, RouteResponse(route[r], trim(rawUrl[r]), options[r], PrimaryReturn(n, res)))
              /\ UNCHANGED fellBack
         ELSE \* catch: the parser is not the generic one
              /\ Await(r, {"oembed"}, FirstPageFetch)
              /\ fellBack' = [fellBack EXCEPT ![r] = TRUE]

\* what EmbedService.extractMetadata settles with once the generic parser has
GenericReturn(r, res) ==
  IF res.ok /\ ~fellBack[r] THEN PrimaryReturn(NormalizedUrlOf(r), res) ELSE res

\* the page fetch of MetadataExtractor.extractOpenGraph settles
OpenGraphSettles(r, o) ==
  LET n == NormalizedUrlOf(r)
  IN  /\ pc[r] = "waiting"
      /\ "og" \in inflight[r]
      /\ settled' = [settled EXCEPT ![r] = Append(@, [target |-> "og", outcome |-> o])]
      /\ UNCHANGED <<route, rawUrl, format, options, normalizedUrl, parser, fellBack, returned,
                     embed, provider>>
      /\ IF NeedsTwitterCards(extractOpenGraph(n, o))
         THEN Await(r, {"og"}, {"twitter"})
         ELSE Send(r, RouteResponse(route[r], trim(rawUrl[r]), options[r],
                                    GenericReturn(r, GenericExtractMetadata(n, PageOuts(r) \o <<o>>))))

\* the page fetch of MetadataExtractor.extractTwitterCards settles
TwitterCardsSettles(r, o) ==
  LET n == NormalizedUrlOf(r)
  IN  /\ pc[r] = "waiting"
      /\ "twitter" \in inflight[r]
      /\ settled' = [settled EXCEPT ![r] = Append(@, [target |-> "twitter", outcome |-> o])]
      /\ UNCHANGED <<route, rawUrl, format, options, normalizedUrl, parser, fellBack, returned,
                     embed, provider>>
      /\ Send(r, RouteResponse(route[r], trim(rawUrl[r]), options[r],
                               GenericReturn(r, GenericExtractMetadata(n, PageOuts(r) \o <<o>>))))

\* a request arrives, whatever the other requests are doing
ServeConcurrently(r, rt, u, f, o) ==
  /\ pc[r] = "idle"
  /\ Serve(r, rt, u, f, o)

(***************************************************************************)
(* YouTubeParser.extractMetadata called on its own, on any string          *)
(***************************************************************************)
DirectCall == "YouTubeParser.extractMetadata"

YouTubeCall(r, u) ==
  /\ pc[r] = "idle"
  /\ route' = [route EXCEPT ![r] = DirectCall]
  /\ rawUrl' = [rawUrl EXCEPT ![r] = u]
  /\ normalizedUrl' = [normalizedUrl EXCEPT ![r] = u]
  /\ parser' = [parser EXCEPT ![r] = "youtube"]
  /\ UNCHANGED <<format, options, fellBack, settled, returned, embed, provider>>
  /\ IF extractYouTubeVideoId(u) = NoMatch
     THEN Send(r, [NoResponse EXCEPT !.error = MsgInvalidYouTube])
     ELSE Await(r, {}, {"oembed"})

YouTubeCallSettles(r, o) ==
  LET u   == rawUrl[r]
      res == YouTubeExtractMetadata(extractYouTubeVideoId(u), u, o)
  IN  /\ pc[r] = "waiting"
      /\ route[r] = DirectCall
      /\ "oembed" \in inflight[r]
      /\ settled' = [settled EXCEPT ![r] = Append(@, [target |-> "oembed", outcome |-> o])]
      /\ UNCHANGED <<route, rawUrl, format, options, normalizedUrl, parser, fellBack, returned,
                     embed, provider>>
      /\ Send(r, [NoResponse EXCEPT !.error = res.msg, !.data = res.value])

(***************************************************************************)
(* URLParser.normalizeUrl, URLParser.detectPlatform with the ID extractors *)
(* and EmbedService.mapTypeToOEmbed called on their own                    *)
(***************************************************************************)
\* a direct call of fn on argument u returns value
Return(r, fn, u, value) ==
  /\ pc[r] = "idle"
  /\ pc' = [pc EXCEPT ![r] = "done"]
  /\ route' = [route EXCEPT ![r] = fn]
  /\ rawUrl' = [rawUrl EXCEPT ![r] = u]
  /\ returned' = [returned EXCEPT ![r] = value]
  /\ UNCHANGED <<format, options, normalizedUrl, parser, fellBack, inflight, started, settled,
                 response, embed, provider>>

NormalizeUrlCall(r, u) ==
  /\ u \in ParserUrls
  /\ Return(r, "URLParser.normalizeUrl", u,
            [NoReturn EXCEPT !.url = normalizeUrl(u), !.twice = normalizeUrl(normalizeUrl(u))])

DetectPlatformCall(r, u) ==
  /\ u \in ParserUrls
  /\ Return(r, "URLParser.detectPlatform", u,
            [NoReturn EXCEPT !.platform = detectPlatform(u),
                             !.ids = [p \in Range(PlatformOrder) |-> extractId(p, u)]])

\* values of EmbedMetadata.type, and strings that are none of them
TypeValues == {"video", "image", "article", "audio", "link", "photo", "rich", "Video", ""}

MapTypeCall(r, type) ==
  /\ type \in TypeValues
  /\ Return(r, "EmbedService.mapTypeToOEmbed", <<type>>,
            [NoReturn EXCEPT !.oembedType = mapTypeToOEmbed(type)])

(***************************************************************************)
(* The inline script of the document YouTubeParser.generateEmbed emits.    *)
(* Every callback runs to completion, so each is one step.  The YouTube    *)
(* player itself is outside the repository: it answers through the three   *)
(* callbacks the script registers.                                         *)
(***************************************************************************)
requestVars ==
  <<pc, route, rawUrl, format, options, normalizedUrl, parser, fellBack, inflight, started,
    settled, response, returned>>

\* iframe_api script tags one document inserts
MaxScriptTags == 3

\* const states of onPlayerStateChange: the names of the player's state codes
PlayerStateNames == [unstarted |-> -1, ended |-> 0, playing |-> 1, paused |-> 2, cued |-> 5]

PlayerStates == DOMAIN PlayerStateNames

\* the window functions the script exposes
WindowFunctions ==
  {"playVideo", "pauseVideo", "stopVideo", "seekTo", "setVolume", "getPlayerState",
   "getCurrentTime", "getDuration"}

\* what each window function returns when its guard fails
DefaultValue(fn) ==
  CASE fn = "getPlayerState" -> <<-1>>
    [] fn \in {"getCurrentTime", "getDuration"} -> <<0>>
    [] OTHER -> Undefined

\* what the player answers: v is the position or duration it holds
PlayerValue(e, fn, v) ==
  CASE fn = "getPlayerState" -> <<PlayerStateNames[e.state]>>
    [] fn \in {"getCurrentTime", "getDuration"} -> <<v>>
    [] OTHER -> Undefined

\* player.<method>(): the method is invoked on the object held in player
Invoke(e, method) ==
  [e EXCEPT !.lastCall = method,
            !.earlyCalls = IF e.playerReady THEN @ ELSE @ \cup {method},
            !.stopRequested = IF method = "stopVideo" /\ e.playerReady THEN TRUE ELSE @]

\* window.postMessage to the host, when window.ReactNativeWebView exists
PostMessage(e, type) == [e EXCEPT !.lastPosted = type]

RECURSIVE initializePlayer(_)

\* function loadYouTubeAPI()
loadYouTubeAPI(e) ==
  IF e.YT
  THEN LET a == [e EXCEPT !.apiLoaded = TRUE]
       IN  IF a.shouldAutoplay THEN initializePlayer(a) ELSE a
  ELSE [e EXCEPT !.scriptTags = @ + 1]

\* function initializePlayer(): player = new YT.Player(...) returns at once,
\* before the player is ready
initializePlayer(e) ==
  IF ~e.apiLoaded THEN loadYouTubeAPI(e)
  ELSE IF e.player THEN Invoke(e, "playVideo")
  ELSE [e EXCEPT !.thumbnail = "fading", !.loading = TRUE, !.player = TRUE]

\* function onYouTubeIframeAPIReady()
onYouTubeIframeAPIReady(e) ==
  LET a == [e EXCEPT !.apiLoaded = TRUE]
  IN  IF a.shouldAutoplay THEN initializePlayer(a) ELSE a

\* function onPlayerReady(event)
onPlayerReady(e) ==
  LET a == PostMessage([e EXCEPT !.playerReady = TRUE, !.loading = FALSE, !.state = "unstarted"],
                       "youtube_player_ready")
  IN  IF a.shouldAutoplay THEN Invoke(a, "playVideo") ELSE a

\* onPlayerStateChange taking the player back to created-and-not-ready when the
\* video is unloaded
onPlayerStateChangeResetsReady(e, s) ==
  PostMessage([e EXCEPT !.state = s, !.stopRequested = FALSE,
                        !.playerReady = IF s \in {"unstarted", "cued"} THEN FALSE ELSE @],
              "youtube_player_state_change")

\* function onPlayerStateChange(event): the state is forwarded, nothing is kept
onPlayerStateChange(e, s) ==
  PostMessage([e EXCEPT !.state = s, !.stopRequested = FALSE], "youtube_player_state_change")

\* function onPlayerError(event)
onPlayerError(e) == PostMessage([e EXCEPT !.errored = TRUE], "youtube_player_error")

\* window.playVideo and the other seven with the guard dropped to if (player)
WindowCallUnguarded(e, fn, v) ==
  IF e.player
  THEN [Invoke(e, fn) EXCEPT !.result = IF e.playerReady THEN PlayerValue(e, fn, v)
                                          ELSE Undefined]
  ELSE [e EXCEPT !.result = DefaultValue(fn)]

\* window.playVideo, pauseVideo, stopVideo, seekTo, setVolume, getPlayerState,
\* getCurrentTime, getDuration: if (player && playerReady) player.<method>()
WindowCall(e, fn, v) ==
  IF e.player /\ e.playerReady
  THEN [Invoke(e, fn) EXCEPT !.result = PlayerValue(e, fn, v)]
  ELSE [e EXCEPT !.result = DefaultValue(fn)]

\* the switch of the message listener
MessageTypes == {"play", "pause", "stop", "seek", "volume", "mute"}

MessageFunction(type) ==
  CASE type = "play" -> "playVideo"
    [] type = "pause" -> "pauseVideo"
    [] type = "stop" -> "stopVideo"
    [] type = "seek" -> "seekTo"
    [] type = "volume" -> "setVolume"
    [] OTHER -> "none"

\* positions and durations the player may answer with
PlayerValues == {0, 7}

\* the states the player may report next: a video starts, is paused and resumed,
\* and ends while it plays; a stop it was asked for unloads the video
PlayerTransitions(e) ==
  (CASE e.state \in {"unstarted", "cued"} -> {"playing"}
     [] e.state = "playing" -> {"paused", "ended"}
     [] e.state = "paused" -> {"playing"}
     [] OTHER -> {})
  \cup (IF e.stopRequested THEN {"unstarted", "cued"} \ {e.state} ELSE {})

\* the WebView loads the document: the script runs to its end, line 773
LoadDocument(autoplay) ==
  /\ ~embed.loaded
  /\ embed' = loadYouTubeAPI([embed EXCEPT !.loaded = TRUE, !.shouldAutoplay = autoplay])
  /\ UNCHANGED <<requestVars, provider>>

\* the user activates the play affordance: onclick="initializePlayer()"
Click ==
  /\ embed.loaded
  /\ embed.thumbnail # "hidden"
  /\ embed.apiLoaded \/ embed.scriptTags < MaxScriptTags
  /\ embed' = initializePlayer([embed EXCEPT !.activated = TRUE])
  /\ UNCHANGED <<requestVars, provider>>

\* setTimeout(() => { thumbnail.style.display = 'none' }, 300)
ThumbnailTimeout ==
  /\ embed.thumbnail = "fading"
  /\ embed' = [embed EXCEPT !.thumbnail = "hidden"]
  /\ UNCHANGED <<requestVars, provider>>

\* the iframe_api script has finished loading: it defines YT.Player and calls
\* the global onYouTubeIframeAPIReady, once per document
ApiReady ==
  /\ embed.scriptTags > 0
  /\ ~embed.YT
  /\ embed' = onYouTubeIframeAPIReady([embed EXCEPT !.YT = TRUE])
  /\ UNCHANGED <<requestVars, provider>>

\* events.onReady
PlayerReady ==
  /\ embed.player
  /\ ~embed.playerReady
  /\ embed' = onPlayerReady(embed)
  /\ UNCHANGED <<requestVars, provider>>

\* events.onStateChange
PlayerStateChange(s) ==
  /\ embed.playerReady
  /\ ~embed.errored
  /\ s \in PlayerTransitions(embed)
  /\ embed' = onPlayerStateChange(embed, s)
  /\ UNCHANGED <<requestVars, provider>>

\* events.onError
PlayerError ==
  /\ embed.player
  /\ ~embed.errored
  /\ embed.state # "ended"
  /\ embed' = onPlayerError(embed)
  /\ UNCHANGED <<requestVars, provider>>

\* the host calls a window function
HostCommand(fn, v) ==
  /\ embed.loaded
  /\ embed' = WindowCall(embed, fn, v)
  /\ UNCHANGED <<requestVars, provider>>

\* the host posts a message: the listener parses it and switches on its type
HostMessage(type, v) ==
  /\ embed.loaded
  /\ embed' = IF MessageFunction(type) = "none" THEN embed
              ELSE WindowCall(embed, MessageFunction(type), v)
  /\ UNCHANGED <<requestVars, provider>>

(***************************************************************************)
(* Specifications                                                          *)
(***************************************************************************)
Next ==
  \/ \E r \in Reqs, rt \in Routes, u \in Urls, f \in Formats :
       \E o \in OptionsOf(rt) : ServeAlone(r, rt, u, f, o)
  \/ \E r \in Reqs, o \in OEmbedOutcomes : OEmbedSettles(r, o)
  \/ \E r \in Reqs, o \in PageOutcomes : OpenGraphSettles(r, o)
  \/ \E r \in Reqs, o \in PageOutcomes : TwitterCardsSettles(r, o)

Spec == Init /\ [][Next]_vars

NextYouTube ==
  \/ \E r \in Reqs, u \in Urls : YouTubeCall(r, u)
  \/ \E r \in Reqs, o \in OEmbedOutcomes : YouTubeCallSettles(r, o)

\* YouTubeParser.extractMetadata applied to every string of Urls
SpecYouTube == Init /\ [][NextYouTube]_vars

NextFunctions ==
  \/ \E r \in Reqs, u \in ParserUrls : NormalizeUrlCall(r, u)
  \/ \E r \in Reqs, u \in ParserUrls : DetectPlatformCall(r, u)
  \/ \E r \in Reqs, type \in TypeValues : MapTypeCall(r, type)

\* the functions of URLParser and mapTypeToOEmbed applied to every input
SpecFunctions == Init /\ [][NextFunctions]_vars

ConcUrls == {UrlWatchUtm, UrlArticle, UrlNoScheme}

ConcRoutes == {"extract", "render"}

ConcOptions(rt) == IF rt = "extract" THEN {NoOptions} ELSE {NoOptions, [width |-> 320, height |-> 0]}

ConcPageOutcomes == {Rejected(MsgTimeout), PageBody(PageFull), PageBody(PageTitleOnly)}

ConcOEmbedOutcomes == {Rejected(MsgNotFound), OEmbedBody(OEmbedData)}

NextConc ==
  \/ \E r \in Reqs, rt \in ConcRoutes, u \in ConcUrls :
       \E o \in ConcOptions(rt) : ServeConcurrently(r, rt, u, "absent", o)
  \/ \E r \in Reqs, o \in ConcOEmbedOutcomes : OEmbedSettles(r, o)
  \/ \E r \in Reqs, o \in ConcPageOutcomes : OpenGraphSettles(r, o)
  \/ \E r \in Reqs, o \in ConcPageOutcomes : TwitterCardsSettles(r, o)

\* requests served concurrently by the singleton embedService
SpecConc == Init /\ [][NextConc]_vars

(***************************************************************************)
(* VideoProvider and useVideoPlayer.  Each callback runs on the state of   *)
(* the last render and its state updates are applied before the next       *)
(* callback runs.  The messages posted to the WebViews are not part of     *)
(* the provider's state.                                                   *)
(***************************************************************************)
\* registerVideo(videoId, playerId)
registerVideo(p, v) ==
  IF p.videos[v].registered THEN p
  ELSE [p EXCEPT !.videos[v] = [Unregistered EXCEPT !.registered = TRUE,
                                                    !.shouldAutoPlay = p.autoPlayEnabled]]

\* unregisterVideo(videoId)
unregisterVideo(p, v) ==
  [p EXCEPT !.videos[v] = Unregistered,
            !.currentVideo = IF @.videoId = v THEN NoCurrent ELSE @]

\* a playVideo that leaves the other videos as they are
playVideoKeepsOthers(p, v) ==
  IF ~p.videos[v].registered THEN p
  ELSE LET updatedVideo == [p.videos[v] EXCEPT !.isPlaying = TRUE, !.isPaused = FALSE,
                                               !.wasManuallyPaused = FALSE,
                                               !.shouldAutoPlay = TRUE]
       IN  [p EXCEPT !.videos[v] = updatedVideo,
                     !.currentVideo = [videoId |-> v, state |-> updatedVideo]]

\* playVideo(videoId): every other playing video is paused first
playVideo(p, v) ==
  IF ~p.videos[v].registered THEN p
  ELSE LET updatedVideo == [p.videos[v] EXCEPT !.isPlaying = TRUE, !.isPaused = FALSE,
                                               !.wasManuallyPaused = FALSE,
                                               !.shouldAutoPlay = TRUE]
       IN  [p EXCEPT
              !.videos = [o \in VideoIds |->
                            IF o = v THEN updatedVideo
                            ELSE IF p.videos[o].registered /\ p.videos[o].isPlaying
                            THEN [p.videos[o] EXCEPT !.isPlaying = FALSE, !.isPaused = TRUE]
                            ELSE p.videos[o]],
              !.currentVideo = [videoId |-> v, state |-> updatedVideo]]

\* pauseVideo(videoId, isManual)
pauseVideo(p, v, isManual) ==
  IF ~p.videos[v].registered THEN p
  ELSE LET video == p.videos[v]
           updatedVideo == [video EXCEPT
                              !.isPlaying = FALSE, !.isPaused = TRUE,
                              !.wasManuallyPaused = isManual \/ video.wasManuallyPaused,
                              !.shouldAutoPlay = IF isManual THEN FALSE ELSE video.shouldAutoPlay]
       IN  [p EXCEPT !.videos[v] = updatedVideo,
                     !.currentVideo = IF @.videoId = v
                                      THEN [videoId |-> v, state |-> updatedVideo] ELSE @]

\* stopVideo(videoId)
stopVideo(p, v) ==
  IF ~p.videos[v].registered THEN p
  ELSE [p EXCEPT !.videos[v] = [@ EXCEPT !.isPlaying = FALSE, !.isPaused = FALSE,
                                         !.wasManuallyPaused = FALSE,
                                         !.shouldAutoPlay = p.autoPlayEnabled],
                 !.currentVideo = IF @.videoId = v THEN NoCurrent ELSE @]

\* updateVideoState(videoId, { isPlaying, isPaused })
updatePlayback(p, v, isPlaying, isPaused) ==
  [p EXCEPT !.videos[v] = IF @.registered
                          THEN [@ EXCEPT !.isPlaying = isPlaying, !.isPaused = isPaused] ELSE @,
            !.currentVideo = IF @.videoId = v
                             THEN [@ EXCEPT !.state.isPlaying = isPlaying,
                                            !.state.isPaused = isPaused]
                             ELSE @]

\* updateVideoState(videoId, { isVisible })
updateVisibility(p, v, isVisible) ==
  [p EXCEPT !.videos[v] = IF @.registered THEN [@ EXCEPT !.isVisible = isVisible] ELSE @,
            !.currentVideo = IF @.videoId = v THEN [@ EXCEPT !.state.isVisible = isVisible]
                             ELSE @]

\* setVideoVisibility(videoId, isVisible)
setVideoVisibility(p, v, isVisible) ==
  LET video == p.videos[v]
  IN  IF ~video.registered \/ video.isVisible = isVisible THEN p
      ELSE IF isVisible
      THEN updateVisibility(
             IF p.autoPlayEnabled /\ video.shouldAutoPlay /\ ~video.wasManuallyPaused
                  /\ ~video.isPlaying
             THEN playVideo(p, v) ELSE p,
             v, isVisible)
      ELSE updateVisibility(
             IF p.autoPauseOnScroll /\ video.isPlaying THEN pauseVideo(p, v, FALSE) ELSE p,
             v, isVisible)

\* the states a player's youtube_player_state_change message names
MessageStates == {"unstarted", "ended", "playing", "paused", "buffering", "cued"}

\* useVideoPlayer(videoId).handlePlayerMessage, case 'youtube_player_state_change'
handlePlayerMessage(p, v, state, userInitiated) ==
  IF state = "paused" /\ userInitiated THEN pauseVideo(p, v, TRUE)
  ELSE updatePlayback(p, v, state = "playing", state = "paused")

Register(v) ==
  /\ v \in VideoIds
  /\ provider' = registerVideo(provider, v)
  /\ UNCHANGED <<requestVars, embed>>

Unregister(v) ==
  /\ v \in VideoIds
  /\ provider' = unregisterVideo(provider, v)
  /\ UNCHANGED <<requestVars, embed>>

Play(v) ==
  /\ v \in VideoIds
  /\ provider' = playVideo(provider, v)
  /\ UNCHANGED <<requestVars, embed>>

Pause(v, isManual) ==
  /\ v \in VideoIds
  /\ provider' = pauseVideo(provider, v, isManual)
  /\ UNCHANGED <<requestVars, embed>>

Stop(v) ==
  /\ v \in VideoIds
  /\ provider' = stopVideo(provider, v)
  /\ UNCHANGED <<requestVars, embed>>

SetVisibility(v, isVisible) ==
  /\ v \in VideoIds
  /\ provider' = setVideoVisibility(provider, v, isVisible)
  /\ UNCHANGED <<requestVars, embed>>

\* the WebView of video v delivers a state-change message of its player
PlayerMessage(v, state, userInitiated) ==
  /\ provider.videos[v].registered
  /\ provider' = handlePlayerMessage(provider, v, state, userInitiated)
  /\ UNCHANGED <<requestVars, embed>>

SetAutoPlayEnabled(enabled) ==
  /\ provider' = [provider EXCEPT !.autoPlayEnabled = enabled]
  /\ UNCHANGED <<requestVars, embed>>

SetAutoPauseOnScroll(enabled) ==
  /\ provider' = [provider EXCEPT !.autoPauseOnScroll = enabled]
  /\ UNCHANGED <<requestVars, embed>>

NextProvider ==
  \/ \E v \in VideoIds : Register(v)
  \/ \E v \in VideoIds : Unregister(v)
  \/ \E v \in VideoIds : Play(v)
  \/ \E v \in VideoIds, isManual \in BOOLEAN : Pause(v, isManual)
  \/ \E v \in VideoIds : Stop(v)
  \/ \E v \in VideoIds, isVisible \in BOOLEAN : SetVisibility(v, isVisible)
  \/ \E v \in VideoIds, state \in MessageStates, userInitiated \in BOOLEAN :
       PlayerMessage(v, state, userInitiated)
  \/ \E enabled \in BOOLEAN : SetAutoPlayEnabled(enabled)
  \/ \E enabled \in BOOLEAN : SetAutoPauseOnScroll(enabled)

\* one VideoProvider and the video components under it
SpecProvider == Init /\ [][NextProvider]_vars

NextEmbed ==
  \/ \E autoplay \in BOOLEAN : LoadDocument(autoplay)
  \/ Click
  \/ ThumbnailTimeout
  \/ ApiReady
  \/ PlayerReady
  \/ \E s \in PlayerStates : PlayerStateChange(s)
  \/ PlayerError
  \/ \E fn \in WindowFunctions, v \in PlayerValues : HostCommand(fn, v)
  \/ \E type \in MessageTypes, v \in PlayerValues : HostMessage(type, v)

\* one document of YouTubeParser.generateEmbed in a WebView
SpecEmbed == Init /\ [][NextEmbed]_vars

\* the same document when the API script finishes loading, the player it was
\* asked for becomes ready and the 300 ms timer fires
SpecEmbedFair ==
  /\ Init
  /\ [][NextEmbed]_vars
  /\ WF_vars(ApiReady)
  /\ WF_vars(PlayerReady)
  /\ WF_vars(ThumbnailTimeout)

(***************************************************************************)
(* Properties                                                              *)
(***************************************************************************)
Done(r) == pc[r] = "done"

\* the request got past the route's checks and the service's isValidUrl
Accepted(r) ==
  /\ route[r] \in Routes
  /\ RouteValidation(route[r], rawUrl[r], format[r]) = 0
  /\ DimsValidation(route[r], options[r]) = 0
  /\ isValidUrl(trim(rawUrl[r]))

\* the outcome of the last fetch that settled for request r
LastOutcome(r) == settled[r][Len(settled[r])].outcome

\* C2: generic extraction never raises: whatever the outcomes of the page
\* fetches, a request served by the generic extractor ends with a record and
\* no error, and when the page fetch failed the record has platform generic,
\* type link and the domain of the requested URL as its title
C2_GenericNeverRaises ==
  \A r \in Reqs :
    (Done(r) /\ PageOuts(r) # << >>) =>
      /\ response[r].error = NoTokens
      /\ response[r].status = 200
      /\ response[r].data.platform = "generic"
      /\ ~PageOuts(r)[1].ok =>
           /\ response[r].data.type = "link"
           /\ response[r].data.title = RemoveFirst(HostOf(normalizedUrl[r]), "www.")

\* the page fetch failed, the Twitter Card fetch brought a page with a title
C2_Witness ==
  \E r \in Reqs :
    /\ Done(r)
    /\ Len(PageOuts(r)) = 2
    /\ ~PageOuts(r)[1].ok
    /\ PageOuts(r)[2] = PageBody(PageTitleOnly)
    /\ rawUrl[r] = UrlWww

\* C3: YouTubeParser.extractMetadata raises 'Invalid YouTube URL' exactly when
\* no video ID can be extracted, and then without having started a fetch;
\* with an ID, every failure of the oEmbed call gives the placeholder record
\* built from the ID and no error
C3_YouTubeHardFailureOnly ==
  \A r \in Reqs :
    (Done(r) /\ route[r] = DirectCall) =>
      LET id == extractYouTubeVideoId(rawUrl[r])
      IN  /\ (response[r].error = MsgInvalidYouTube) <=> (id = NoMatch)
          /\ response[r].error \in {NoTokens, MsgInvalidYouTube}
          /\ response[r].error # NoTokens => started[r] = 0
          /\ (id # NoMatch /\ ~LastOutcome(r).ok) =>
               /\ response[r].data.title = <<"YouTube Video">>
               /\ response[r].data.description = <<"Watch this video on YouTube">>
               /\ response[r].data.image =
                    <<"https://img.youtube.com/vi", "/", id, "/", "hqdefault", ".jpg">>
               /\ response[r].data.embedData.videoId = id

\* one call raised, another degraded to the placeholder after a timeout
C3_Witness ==
  \E r, q \in Reqs :
    /\ Done(r) /\ route[r] = DirectCall /\ response[r].error = MsgInvalidYouTube
    /\ Done(q) /\ route[q] = DirectCall /\ settled[q] # << >>
    /\ LastOutcome(q) = Rejected(MsgTimeout)

\* C4: for a request whose URL is a YouTube video URL, whatever the outcome of
\* the oEmbed call, the record has platform youtube, type video, the 11-character
\* ID of the URL as embedData.videoId and the embed URL made of that ID
C4_YouTubeRecord ==
  \A r \in Reqs :
    (Done(r) /\ Accepted(r) /\ detectPlatform(normalizeUrl(trim(rawUrl[r]))) = "youtube") =>
      LET id == extractYouTubeVideoId(normalizeUrl(trim(rawUrl[r])))
      IN  /\ response[r].status = 200
          /\ response[r].data.platform = "youtube"
          /\ response[r].data.type = "video"
          /\ id \in IdTokens
          /\ response[r].data.embedData.present
          /\ response[r].data.embedData.videoId = id
          /\ response[r].data.embedData.embedUrl = <<"https://www.youtube.com/embed/", id>>

\* a watch URL with a tracking parameter, the oEmbed endpoint answering an empty body
C4_Witness ==
  \E r \in Reqs :
    /\ Done(r) /\ route[r] = "extract" /\ rawUrl[r] = UrlWatchUtm
    /\ LastOutcome(r) = OEmbedBody(NoData)
    /\ response[r].data.embedData.videoId = "dQw4w9WgXcQ"

\* C5: every record returned has a type, a platform and a url, the url being
\* the normalized form of the requested URL, and carries embedData only when
\* the YouTube extractor produced it, never with platform generic
C5_RecordInvariant ==
  \A r \in Reqs :
    (Done(r) /\ route[r] \in Routes /\ response[r].status = 200) =>
      LET m == response[r].data
      IN  /\ m.type \in {"video", "image", "article", "audio", "link"}
          /\ m.platform \in {"youtube", "generic"}
          /\ m.url # NoTokens
          /\ m.url = normalizeUrl(trim(rawUrl[r]))
          /\ m.embedData.present => (parser[r] = "youtube" /\ ~fellBack[r])
          /\ m.platform = "generic" => ~m.embedData.present

\* a YouTube record built without oEmbed data, its ID taken from the normalized URL
C5_Witness ==
  \E r \in Reqs :
    /\ Done(r) /\ route[r] = "extract" /\ response[r].status = 200
    /\ parser[r] = "youtube"
    /\ response[r].data.embedData.present
    /\ ~LastOutcome(r).ok
    /\ rawUrl[r] = UrlWatchRef

\* C6: a call starts at most two fetches and never has two in flight at once
C6_AtMostTwoSequentialFetches ==
  \A r \in Reqs :
    /\ started[r] <= 2
    /\ Cardinality(inflight[r]) <= 1
    /\ Len(settled[r]) + Cardinality(inflight[r]) = started[r]

\* an oembed request answered after two page fetches
C6_Witness ==
  \E r \in Reqs :
    /\ route[r] = "oembed" /\ Done(r) /\ started[r] = 2 /\ Len(settled[r]) = 2
    /\ response[r].status = 200

(***************************************************************************)
(* A request run on its own: the route handler as one sequential           *)
(* computation over the outcomes its fetches meet, in order.  It ends with *)
(* a response, or is suspended on a fetch when the outcomes run out.       *)
(***************************************************************************)
Suspended(target) == [pc |-> "waiting", inflight |-> {target}, response |-> NoResponse]

Answered(resp) == [pc |-> "done", inflight |-> {}, response |-> resp]

\* GenericParser.extractMetadata run to its end: "pending" with the fetch it
\* waits for, or the settled result
GenericAlone(n, outs) ==
  IF outs = << >> THEN [pending |-> "og", result |-> Threw(NoTokens)]
  ELSE IF Len(outs) = 1 /\ NeedsTwitterCards(extractOpenGraph(n, outs[1]))
  THEN [pending |-> "twitter", result |-> Threw(NoTokens)]
  ELSE [pending |-> "", result |-> GenericExtractMetadata(n, outs)]

\* EmbedService.extractMetadata(url) run to its end
ExtractMetadataAlone(url, outs) ==
  IF ~isValidUrl(url) THEN [pending |-> "", result |-> Threw(MsgInvalidUrl)]
  ELSE
    LET n  == normalizeUrl(url)
        p  == findParser(n)
        id == extractYouTubeVideoId(n)
    IN  IF p = "none" THEN [pending |-> "", result |-> Threw(MsgNoParser)]
        ELSE IF p = "youtube" /\ id = NoMatch THEN GenericAlone(n, outs)
        ELSE IF p = "youtube" /\ outs = << >>
        THEN [pending |-> "oembed", result |-> Threw(NoTokens)]
        ELSE IF p = "youtube"
        THEN LET res == YouTubeExtractMetadata(id, n, outs[1])
             IN  IF res.ok THEN [pending |-> "", result |-> PrimaryReturn(n, res)]
                 ELSE GenericAlone(n, Drop(outs, 1))
        ELSE LET g == GenericAlone(n, outs)
             IN  IF g.pending = "" /\ g.result.ok
                 THEN [pending |-> "", result |-> PrimaryReturn(n, g.result)]
                 ELSE g

RunAlone(rt, u, f, o, outs) ==
  IF RouteValidation(rt, u, f) # 0 THEN Answered(Reject(RouteValidation(rt, u, f)))
  ELSE IF DimsValidation(rt, o) # 0 THEN Answered(Reject(DimsValidation(rt, o)))
  ELSE LET e == ExtractMetadataAlone(trim(u), outs)
       IN  IF e.pending # "" THEN Suspended(e.pending)
           ELSE Answered(RouteResponse(rt, trim(u), o, e.result))

OutcomesOf(r) == [i \in 1..Len(settled[r]) |-> settled[r][i].outcome]

\* C7: under every interleaving, each request stands where it would stand if
\* it ran alone with the outcomes its own fetches met, and answers what it
\* would answer alone
C7_NoInterference ==
  \A r \in Reqs :
    pc[r] # "idle" =>
      LET alone == RunAlone(route[r], rawUrl[r], format[r], options[r], OutcomesOf(r))
      IN  /\ pc[r] = alone.pc
          /\ inflight[r] = alone.inflight
          /\ response[r] = alone.response

\* two requests for different URLs, each suspended on its second fetch and
\* one already answered
C7_Witness ==
  \E r, q \in Reqs :
    /\ r # q
    /\ rawUrl[r] = UrlWatchUtm /\ Done(r) /\ response[r].status = 200
    /\ rawUrl[q] = UrlArticle /\ pc[q] = "waiting" /\ Len(settled[q]) = 1

\* the url parameter is not a URL for the boundary, or new URL(...) throws on it
Malformed(u) == ~validatorIsURL(trim(u)) \/ ~ParseOk(trim(u))

\* the url parameter is not a URL for the boundary, and new URL(...) throws on it
MalformedForBoth(u) == ~validatorIsURL(trim(u)) /\ ~ParseOk(trim(u))

\* C8 as stated: a request with a malformed url is answered with a 400-class
\* status on every route, before any extractor is selected and without a fetch
C8_Original ==
  \A r \in Reqs :
    (Done(r) /\ route[r] \in Routes /\ MalformedForBoth(rawUrl[r])) =>
      /\ response[r].status \in 400..499
      /\ started[r] = 0
      /\ parser[r] = "none"

\* C8 amended: a request with a malformed url is answered before any extractor
\* is selected and without a fetch; the status is 400, except that /api/oembed
\* answers 501 to format=xml whatever the (non-empty) url
C8_MalformedRejectedWithoutFetch ==
  \A r \in Reqs :
    (route[r] \in Routes /\ pc[r] # "idle" /\ Malformed(rawUrl[r])) =>
      /\ Done(r)
      /\ started[r] = 0
      /\ parser[r] = "none"
      /\ response[r].data = NoMetadata
      /\ response[r].status =
           IF route[r] = "oembed" /\ format[r] = "xml" /\ rawUrl[r] # NoTokens
           THEN 501 ELSE 400

\* a URL without a scheme, which the boundary accepts and the service refuses
C8_Witness ==
  \E r \in Reqs :
    /\ Done(r) /\ route[r] = "render" /\ rawUrl[r] = UrlNoScheme
    /\ response[r].status = 400
    /\ response[r].error = MsgInvalidUrl

\* the last fetch of request r failed with a connection error / with a timeout
LastUnreachable(r) ==
  settled[r] # << >> /\ LastOutcome(r) \in {Rejected(MsgNotFound), Rejected(MsgRefused)}

LastTimedOut(r) == settled[r] # << >> /\ LastOutcome(r) = Rejected(MsgTimeout)

\* C9 as stated: on /api/extract an unreachable host on the final fetch gives
\* 404 and a timeout on the final fetch gives 408
C9_Original ==
  \A r \in Reqs :
    (Done(r) /\ route[r] = "extract" /\ Accepted(r)) =>
      /\ LastUnreachable(r) => response[r].status = 404
      /\ LastTimedOut(r) => response[r].status = 408

\* C9 amended: on /api/extract a connection failure or a timeout on any fetch
\* attempt, the final one included, only degrades the record: the caller
\* receives 200 with a record of the selected extractor and no error, never
\* 404 or 408
C9_FetchFailureDegrades ==
  \A r \in Reqs :
    (Done(r) /\ route[r] = "extract" /\ Accepted(r)
       /\ (LastUnreachable(r) \/ LastTimedOut(r))) =>
      /\ response[r].status = 200
      /\ response[r].error = NoTokens
      /\ response[r].data.platform = parser[r]
      /\ response[r].data.title # NoTokens

\* the page fetch was refused and the Twitter Card fetch timed out
C9_Witness ==
  \E r \in Reqs :
    /\ Done(r) /\ route[r] = "extract" /\ rawUrl[r] = UrlArticle
    /\ Len(settled[r]) = 2
    /\ settled[r][1].outcome = Rejected(MsgRefused)
    /\ LastTimedOut(r)
    /\ response[r].status = 200

\* C10: /api/oembed answers 501 to every request with a well-formed url and
\* format=xml, without extraction and without a fetch
C10_XmlNotImplemented ==
  \A r \in Reqs :
    (route[r] = "oembed" /\ format[r] = "xml" /\ pc[r] # "idle" /\ ~Malformed(rawUrl[r])) =>
      /\ Done(r)
      /\ response[r].status = 501
      /\ response[r].data = NoMetadata
      /\ parser[r] = "none"
      /\ started[r] = 0

\* an article URL requested as XML
C10_Witness ==
  \E r \in Reqs :
    /\ Done(r) /\ route[r] = "oembed" /\ format[r] = "xml" /\ rawUrl[r] = UrlArticle
    /\ response[r].status = 501

\* C11 as stated: a request whose url passed the routes' validation never gets
\* the invalid-URL error of EmbedService.extractMetadata
C11_Original ==
  \A r \in Reqs :
    (Done(r) /\ route[r] \in Routes
       /\ RouteValidation(route[r], rawUrl[r], format[r]) = 0
       /\ DimsValidation(route[r], options[r]) = 0) =>
      /\ response[r].error # MsgInvalidUrl
      /\ response[r].status # 400

\* the value a || b || c of three numbers, 0 standing for an absent one
Precedence(explicit, carried, default) ==
  IF explicit # 0 THEN explicit ELSE IF carried # 0 THEN carried ELSE default

\* C12: the oEmbed envelope's width is the explicit maxwidth, else the metadata
\* width, else 500; its height is the explicit maxheight, else the metadata
\* height, else 300; each resolved on its own
C12_EnvelopeDimensions ==
  \A r \in Reqs :
    (Done(r) /\ route[r] = "oembed" /\ response[r].status = 200) =>
      /\ response[r].width =
           Precedence(options[r].width, response[r].data.width, 500)
      /\ response[r].height =
           Precedence(options[r].height, response[r].data.height, 300)

\* maxheight given and maxwidth absent, on a page that carries its dimensions
C12_Witness ==
  \E r \in Reqs :
    /\ Done(r) /\ route[r] = "oembed" /\ response[r].status = 200
    /\ options[r] = [width |-> 0, height |-> 240]
    /\ response[r].data.width = 640 /\ response[r].data.height = 360
    /\ response[r].width = 640 /\ response[r].height = 240

\* C13 as stated: the HTML of renderEmbed is sized by the explicit option, else
\* by the metadata, else by 500x300, whichever extractor renders it
C13_Original ==
  \A r \in Reqs :
    (Done(r) /\ route[r] = "render" /\ response[r].status = 200) =>
      /\ response[r].html.width =
           Precedence(options[r].width, response[r].data.width, 500)
      /\ response[r].html.height =
           Precedence(options[r].height, response[r].data.height, 300)

\* C14: mapTypeToOEmbed gives video for video, photo for image, rich for
\* article and audio, link for link and for every other string, and nothing else
C14_TypeMappingTotal ==
  \A r \in Reqs :
    (Done(r) /\ route[r] = "EmbedService.mapTypeToOEmbed") =>
      LET type == rawUrl[r][1]
      IN  /\ returned[r].oembedType \in {"video", "photo", "rich", "link"}
          /\ type = "video" => returned[r].oembedType = "video"
          /\ type = "image" => returned[r].oembedType = "photo"
          /\ type \in {"article", "audio"} => returned[r].oembedType = "rich"
          /\ type \notin {"video", "image", "article", "audio"} =>
               returned[r].oembedType = "link"

\* a string that is no internal type, and the audio type
C14_Witness ==
  \E r, q \in Reqs :
    /\ Done(r) /\ route[r] = "EmbedService.mapTypeToOEmbed" /\ rawUrl[r] = <<"rich">>
    /\ returned[r].oembedType = "link"
    /\ Done(q) /\ route[q] = "EmbedService.mapTypeToOEmbed" /\ rawUrl[q] = <<"audio">>
    /\ returned[q].oembedType = "rich"

\* C15: detectPlatform returns the first platform of the order youtube,
\* instagram, tiktok, linkedin, twitter that has a matching pattern, generic
\* only when none has, and the same platform on every call with the same URL
C15_FirstPlatformWins ==
  \A r \in Reqs :
    (Done(r) /\ route[r] = "URLParser.detectPlatform") =>
      LET order == <<"youtube", "instagram", "tiktok", "linkedin", "twitter">>
          hits  == {i \in 1..Len(order) : PatternsMatch(order[i], rawUrl[r])}
      IN  /\ hits = {} <=> returned[r].platform = "generic"
          /\ hits # {} =>
               \E i \in hits : /\ returned[r].platform = order[i]
                               /\ \A k \in hits : i <= k
          /\ \A q \in Reqs :
               (Done(q) /\ route[q] = route[r] /\ rawUrl[q] = rawUrl[r]) =>
                 returned[q].platform = returned[r].platform

\* a tweet URL whose query holds a YouTube short link, and a plain article URL
C15_Witness ==
  \E r, q \in Reqs :
    /\ Done(r) /\ route[r] = "URLParser.detectPlatform" /\ rawUrl[r] = UrlTwitterYt
    /\ returned[r].platform = "youtube"
    /\ Done(q) /\ route[q] = "URLParser.detectPlatform" /\ rawUrl[q] = UrlArticle
    /\ returned[q].platform = "generic"

\* the text captured by each pattern of a platform, in the order of the patterns
Captures(platform, url) ==
  CASE platform = "youtube"   -> <<Match(url, YouTube1At), Match(url, YouTube2At)>>
    [] platform = "instagram" -> <<Match(url, InstagramAt)>>
    [] platform = "tiktok"    -> <<Match(url, TikTok1At), Match(url, TikTok2At)>>
    [] platform = "linkedin"  -> <<Match(url, LinkedIn1At), Match(url, LinkedIn2At)>>
    [] platform = "twitter"   -> <<Match(url, TwitterAt)>>

\* the capture of the first pattern that matches
FirstCapture(platform, url) ==
  LET caps == Captures(platform, url)
      hits == {i \in 1..Len(caps) : caps[i] # NoMatch}
  IN  IF hits = {} THEN NoMatch ELSE caps[Min(hits)]

\* C16 as stated: for a URL matching a pattern of a platform, detectPlatform
\* returns that platform and its extractor returns the first pattern's capture
C16_Original ==
  \A r \in Reqs :
    (Done(r) /\ route[r] = "URLParser.detectPlatform") =>
      \A p \in Range(PlatformOrder) :
        PatternsMatch(p, rawUrl[r]) =>
          /\ returned[r].platform = p
          /\ returned[r].ids[p] = FirstCapture(p, rawUrl[r])

\* C16 amended: for a URL matching a pattern of a platform, that platform's
\* extractor returns the capture of the first of its patterns that matches, and
\* detectPlatform returns that platform when no platform earlier in the order
\* youtube, instagram, tiktok, linkedin, twitter has a matching pattern
C16_DetectedPlatformAndId ==
  \A r \in Reqs :
    (Done(r) /\ route[r] = "URLParser.detectPlatform") =>
      LET order == <<"youtube", "instagram", "tiktok", "linkedin", "twitter">>
      IN  \A i \in 1..Len(order) :
            PatternsMatch(order[i], rawUrl[r]) =>
              /\ returned[r].ids[order[i]] # NoMatch
              /\ returned[r].ids[order[i]] = FirstCapture(order[i], rawUrl[r])
              /\ (\A k \in 1..(i - 1) : ~PatternsMatch(order[k], rawUrl[r])) =>
                   returned[r].platform = order[i]

\* a LinkedIn article URL, matched by the second LinkedIn pattern only
C16_Witness ==
  \E r \in Reqs :
    /\ Done(r) /\ route[r] = "URLParser.detectPlatform" /\ rawUrl[r] = UrlLinkedInPulse
    /\ returned[r].platform = "linkedin"
    /\ returned[r].ids["linkedin"] = "x"

\* C17: normalizeUrl is idempotent on every valid URL
C17_NormalizeIdempotent ==
  \A r \in Reqs :
    (Done(r) /\ route[r] = "URLParser.normalizeUrl" /\ isValidUrl(rawUrl[r])) =>
      returned[r].twice = returned[r].url

\* a URL with several tracking parameters, all of them gone after one call
C17_Witness ==
  \E r \in Reqs :
    /\ Done(r) /\ route[r] = "URLParser.normalizeUrl" /\ rawUrl[r] = UrlTwoTracking
    /\ returned[r].url = <<"https://", "example.com", "/", "a", "?", "keep=", "1", "&", "v=", "a">>
    /\ returned[r].twice = returned[r].url

\* the string normalizeUrl hands to new URL(...)
WithScheme(url) ==
  IF Len(url) >= 1 /\ url[1] \in {"http://", "https://"} THEN url ELSE <<"https://">> \o url

\* the decoded name/value pairs of the query of a parsed URL
QueryParams(u) == SplitParams(RawQueryOf(trim(u)))

\* C18: normalizeUrl removes every pair named utm_source, utm_medium,
\* utm_campaign, utm_term, utm_content, fbclid, gclid, ref, source or
\* campaign_id from the query and keeps every other pair, value and order
C18_TrackingStripped ==
  \A r \in Reqs :
    (Done(r) /\ route[r] = "URLParser.normalizeUrl" /\ ParseOk(trim(WithScheme(rawUrl[r])))) =>
      LET tracking == {"utm_source=", "utm_medium=", "utm_campaign=", "utm_term=",
                       "utm_content=", "fbclid=", "gclid=", "ref=", "source=", "campaign_id="}
          before   == QueryParams(WithScheme(rawUrl[r]))
          after    == QueryParams(returned[r].url)
      IN  /\ \A i \in 1..Len(after) : after[i][1] \notin tracking
          /\ after = SelectSeq(before, LAMBDA pair : pair[1] \notin tracking)

\* https://example.com/a?utm_source=x&keep=1 keeps keep=1 and nothing else
C18_Witness ==
  \E r \in Reqs :
    /\ Done(r) /\ route[r] = "URLParser.normalizeUrl" /\ rawUrl[r] = UrlArticle
    /\ returned[r].url = <<"https://", "example.com", "/", "a", "?", "keep=", "1">>

\* C19 as stated: when the string cannot be parsed as a URL, normalizeUrl
\* returns exactly the string it was given
C19_Original ==
  \A r \in Reqs :
    (Done(r) /\ route[r] = "URLParser.normalizeUrl" /\ ~ParseOk(trim(WithScheme(rawUrl[r])))) =>
      returned[r].url = rawUrl[r]

\* C20: the extractor selected is the YouTube one when a YouTube pattern
\* matches the normalized URL and the generic one otherwise, and no request
\* ends with the no-suitable-parser error
C20_ParserAlwaysFound ==
  \A r \in Reqs :
    (Done(r) /\ route[r] \in Routes) =>
      /\ response[r].error # MsgNoParser
      /\ response[r].status # 422
      /\ Accepted(r) =>
           parser[r] = IF PatternsMatch("youtube", normalizedUrl[r]) THEN "youtube" ELSE "generic"

\* a request served by the generic extractor for an article URL
C20_Witness ==
  \E r \in Reqs :
    /\ Done(r) /\ route[r] = "render" /\ rawUrl[r] = UrlArticle
    /\ parser[r] = "generic" /\ response[r].status = 200

\* the state of the document apart from what the last call returned
EmbedState(e) == [e EXCEPT !.result = Undefined]

\* C21: a host command (play, pause, stop, seek, setVolume, getState,
\* getCurrentTime, getDuration), called as a window function or posted as a
\* message while the player is not both created and ready, invokes no player
\* method and leaves the document's state as it was; the getters return -1, 0
\* and 0
C21_CommandsBeforeReady ==
  [][~(embed.player /\ embed.playerReady) =>
       /\ \A fn \in WindowFunctions, v \in PlayerValues :
            HostCommand(fn, v) =>
              /\ EmbedState(embed') = EmbedState(embed)
              /\ embed'.result = DefaultValue(fn)
       /\ \A type \in MessageTypes, v \in PlayerValues :
            HostMessage(type, v) => EmbedState(embed') = EmbedState(embed)]_vars

\* getPlayerState was called on a player created and not yet ready: it
\* returned -1 and no method of the player has been invoked
C21_Witness ==
  /\ embed.player /\ ~embed.playerReady
  /\ embed.result = <<-1>>
  /\ embed.lastCall = "none"

\* C22 as stated: with autoplay off, once the play affordance has been
\* activated, before or after the API script has loaded, the API is loaded
\* and the player is created eventually, with no further activation
C22_Original ==
  (embed.activated /\ ~embed.shouldAutoplay) ~> (embed.apiLoaded /\ embed.player)

\* the lifecycle state of the document, read off the script's variables and
\* the state the player reported last; between the API having loaded and the
\* player being created the script is still waiting, which counts as loading-api
Lifecycle(e) ==
  IF ~e.loaded THEN "uninitialized"
  ELSE IF e.errored THEN "error"
  ELSE IF ~e.player THEN "loading-api"
  ELSE IF ~e.playerReady THEN "player-created"
  ELSE IF e.state \in {"playing", "paused", "ended"} THEN e.state
  ELSE "ready"

\* uninitialized -> loading-api -> player-created -> ready -> playing <-> paused,
\* playing -> ended
ForwardTransitions ==
  {<<"uninitialized", "loading-api">>, <<"loading-api", "player-created">>,
   <<"player-created", "ready">>, <<"ready", "playing">>, <<"playing", "paused">>,
   <<"paused", "playing">>, <<"playing", "ended">>}

\* C23 as stated: the forward transitions, error from every non-terminal
\* state, and stop back to player-created
ClaimedTransitions ==
  ForwardTransitions
  \cup {<<s, "error">> : s \in {"uninitialized", "loading-api", "player-created", "ready",
                                "playing", "paused"}}
  \cup {<<s, "player-created">> : s \in {"ready", "playing", "paused"}}

C29_Original == "playVideo" \notin embed.earlyCalls

\* the type C24 gives an og:type value: by its first token, whatever its case
ClaimedType(ogType) ==
  LET t == toLowerCase(ogType)
  IN  IF t = NoTokens THEN "link"
      ELSE IF t[1] = "video" THEN "video"
      ELSE IF t[1] = "music" THEN "audio"
      ELSE IF t \in {<<"article">>, <<"blog">>, <<"news">>} THEN "article"
      ELSE "link"

\* C24 as stated: the record of a generic extraction whose page was fetched
\* has type video when the page's og:type begins with video, audio when it
\* begins with music, article for article, blog and news, link otherwise,
\* whatever the case of the letters
C24_Original ==
  \A r \in Reqs :
    (Done(r) /\ Accepted(r) /\ route[r] = "extract" /\ parser[r] = "generic"
       /\ settled[r][1].outcome.ok) =>
      response[r].data.type = ClaimedType(settled[r][1].outcome.page.meta["og:type"])

\* C25 as stated: the image of every record generic extraction returns is
\* absent or absolute, whether it came from the OpenGraph or from the
\* Twitter-Card tags
C25_Original ==
  \A r \in Reqs :
    (Done(r) /\ Accepted(r) /\ route[r] = "extract" /\ parser[r] = "generic") =>
      \/ response[r].data.image = NoTokens
      \/ startsWithHttp(response[r].data.image)

\* C26: whenever YouTubeParser.canHandle(url) holds, extractYouTubeVideoId(url)
\* finds an ID; so a request dispatched to the YouTube extractor never fails
\* with 'Invalid YouTube URL' and the orchestrator's retry with the generic
\* extractor is never taken
C26_YouTubeIdAlwaysFound ==
  /\ \A u \in ParserUrls : YouTubeCanHandle(u) => extractYouTubeVideoId(u) # NoMatch
  /\ \A r \in Reqs :
       route[r] \in Routes =>
         /\ ~fellBack[r]
         /\ response[r].error # MsgInvalidYouTube
         /\ parser[r] = "youtube" => extractYouTubeVideoId(normalizedUrl[r]) # NoMatch

\* a request for a shorts URL, which only the second YouTube pattern matches,
\* served by the YouTube extractor with the ID found
C26_Witness ==
  \E r \in Reqs :
    /\ Done(r) /\ route[r] = "extract" /\ rawUrl[r] = UrlShorts
    /\ parser[r] = "youtube" /\ ~fellBack[r]
    /\ response[r].status = 200
    /\ response[r].data.embedData.videoId = "ABCDEFGHIJK"

\* C27 as stated: in getOEmbed and renderEmbed the extractor selected on the
\* raw URL to render is the one selected on the normalized URL to extract, so
\* a generic record is rendered by the generic renderer and a youtube record
\* by the YouTube renderer
C27_Original ==
  \A r \in Reqs :
    (Done(r) /\ Accepted(r) /\ route[r] \in {"oembed", "render"} /\ response[r].status = 200) =>
      /\ findParser(trim(rawUrl[r])) = parser[r]
      /\ response[r].data.platform = "generic" => response[r].html.renderer = "generic-embed"
      /\ response[r].data.platform = "youtube" =>
           response[r].html.renderer \in {"youtube-player", "youtube-link-preview"}

\* C28 as stated: the width of an oEmbed envelope is the width its html is
\* sized with, and its height is the height its html is sized with where the
\* renderer sizes by height (the player document), whatever the extractor,
\* maxwidth, maxheight and the record's dimensions
C28_Original ==
  \A r \in Reqs :
    (Done(r) /\ Accepted(r) /\ route[r] = "oembed" /\ response[r].status = 200) =>
      /\ response[r].width = response[r].html.width
      /\ response[r].html.renderer = "youtube-player" =>
           response[r].height = response[r].html.height

\* C30 as stated: whatever the calls of registerVideo, unregisterVideo,
\* playVideo, pauseVideo, stopVideo and setVideoVisibility and whatever the
\* state-change messages of the players, at most one registered video has
\* isPlaying = true
C30_Original ==
  Cardinality({v \in VideoIds : provider.videos[v].registered /\ provider.videos[v].isPlaying})
    <= 1

====
